---- MODULE Spec2Model ----
(***************************************************************************)
(* A model of the SEO audit backend (src/backend): the module-level        *)
(* configuration set at startup, the five request handlers (SEO health,    *)
(* search visibility, GEO, traffic estimation, report generation) and the  *)
(* pure helpers they call.                                                 *)
(*                                                                         *)
(* Conventions.                                                            *)
(*  - Text is a TLA+ string, read character by character with SubSeq.      *)
(*    Only ASCII is used: the emoji that open the advisory messages of     *)
(*    the source are left out of the message texts.                        *)
(*  - An Optional value is a tuple: <<>> is None, <<v>> is the value v.    *)
(*  - A float is a fixed-point integer in units of 1/10000 (2.5 is 25000). *)
(*  - `call` holds the most recent handler invocation: its inputs, the     *)
(*    outbound network calls it issued, and the response or error.         *)
(***************************************************************************)
EXTENDS Integers, Sequences, FiniteSets, TLC

VARIABLES
    settings,   \* main.py Settings(): the environment read at import time
    cfg,        \* the module-level credential variables of the api modules
    phase,      \* "import" before main.py lines 35-46 ran, then "serving"
    call,       \* the most recent handler invocation (inputs, net, response)
    files,      \* the temporary directory: path -> the document written there
    gen         \* in-flight generate_report calls: id -> [pc, path, ...]

vars == <<settings, cfg, phase, call, files, gen>>

-----------------------------------------------------------------------------
(* Optional values and Python truthiness *)

None == <<>>

Some(v) == <<v>>

IsNone(o) == o = <<>>

Val(o) == o[1]

-----------------------------------------------------------------------------
(* Text helpers: Python str operations on ASCII strings *)

Char(s, i) == SubSeq(s, i, i)

LowerChar(c) ==
    CASE c = "A" -> "a" [] c = "B" -> "b" [] c = "C" -> "c" [] c = "D" -> "d"
      [] c = "E" -> "e" [] c = "F" -> "f" [] c = "G" -> "g" [] c = "H" -> "h"
      [] c = "I" -> "i" [] c = "J" -> "j" [] c = "K" -> "k" [] c = "L" -> "l"
      [] c = "M" -> "m" [] c = "N" -> "n" [] c = "O" -> "o" [] c = "P" -> "p"
      [] c = "Q" -> "q" [] c = "R" -> "r" [] c = "S" -> "s" [] c = "T" -> "t"
      [] c = "U" -> "u" [] c = "V" -> "v" [] c = "W" -> "w" [] c = "X" -> "x"
      [] c = "Y" -> "y" [] c = "Z" -> "z" [] OTHER -> c

\* str.lower(), character by character (the text is halved at each step)
RECURSIVE Lower(_)
Lower(s) ==
    IF Len(s) <= 1 THEN LowerChar(s)
    ELSE Lower(SubSeq(s, 1, Len(s) \div 2)) \o Lower(SubSeq(s, Len(s) \div 2 + 1, Len(s)))

\* str.startswith(p)
StartsWith(s, p) == Len(s) >= Len(p) /\ SubSeq(s, 1, Len(p)) = p

\* the text after the first n characters: s[n:]
Drop(s, n) == SubSeq(s, n + 1, Len(s))

\* s[:n]
Take(s, n) == SubSeq(s, 1, IF n < Len(s) THEN n ELSE Len(s))

\* str.find(p) + 1: the 1-based index of the first occurrence of p, 0 if none
Find(s, p) ==
    LET hits == {i \in 1..(Len(s) - Len(p) + 1) : SubSeq(s, i, i + Len(p) - 1) = p}
    IN  IF Len(p) = 0 THEN 1
        ELSE IF hits = {} THEN 0
        ELSE CHOOSE i \in hits : \A j \in hits : i <= j

\* p in s
Contains(s, p) == Find(s, p) > 0

IsSpace(c) == c \in {" ", "\t", "\n", "\r"}

RECURSIVE LStrip(_)
LStrip(s) == IF Len(s) > 0 /\ IsSpace(Char(s, 1)) THEN LStrip(Drop(s, 1)) ELSE s

RECURSIVE RStrip(_)
RStrip(s) ==
    IF Len(s) > 0 /\ IsSpace(Char(s, Len(s))) THEN RStrip(Take(s, Len(s) - 1)) ELSE s

\* str.strip()
Strip(s) == RStrip(LStrip(s))

\* str.rstrip(c) for one character c
RECURSIVE RStripChar(_, _)
RStripChar(s, c) ==
    IF Len(s) > 0 /\ Char(s, Len(s)) = c THEN RStripChar(Take(s, Len(s) - 1), c) ELSE s

-----------------------------------------------------------------------------
(* Configuration: main.py, and the module-level variables of the api modules *)

\* a credential is either not configured (the empty string) or configured
Keys == {"", "key"}

\* main.py Settings: the fields read from the environment, and the DEBUG
\* variable of the environment, which analyze_geo reads with os.getenv
SettingsValues ==
    [pagespeed_api_key : Keys, gemini_api_key : Keys,
     apify_api_token : Keys, bing_api_key : Keys, DEBUG : {"", "1"}]

\* the module-level defaults before main.py assigns them (BING_API_KEY is an
\* attribute main.py creates on the search module; nothing reads it)
ModuleDefaults ==
    [PAGESPEED_API_KEY |-> "", GEMINI_API_KEY |-> "",
     APIFY_API_TOKEN |-> "", BING_API_KEY |-> ""]

\* no handler has run yet
NoCall == [op |-> "none"]

Init ==
    /\ settings \in SettingsValues
    /\ cfg = ModuleDefaults
    /\ phase = "import"
    /\ call = NoCall
    /\ files = <<>>
    /\ gen = <<>>

\* main.py lines 35-46: the settings are copied into the api modules
Startup ==
    /\ phase = "import"
    /\ cfg' = [PAGESPEED_API_KEY |-> settings.pagespeed_api_key,
               GEMINI_API_KEY |-> settings.gemini_api_key,
               APIFY_API_TOKEN |-> settings.apify_api_token,
               BING_API_KEY |-> settings.bing_api_key]
    /\ phase' = "serving"
    /\ UNCHANGED <<settings, call, files, gen>>

\* the service is up and no handler invocation is being answered
Idle == phase = "serving" /\ call = NoCall

\* the response of the last invocation has been sent: nothing of the request
\* outlives it
Respond ==
    /\ phase = "serving"
    /\ call # NoCall
    /\ call' = NoCall
    /\ UNCHANGED <<settings, cfg, phase, files, gen>>

-----------------------------------------------------------------------------
(* Request validation: pydantic builds the request model before the handler *)

\* pydantic HttpUrl: an http or https scheme followed by a non-empty host
\* without white space
IsHttpUrl(u) ==
    \E p \in {"http://", "https://"} :
        /\ StartsWith(u, p)
        /\ Len(u) > Len(p)
        /\ Char(u, Len(p) + 1) \notin {"/", " ", "."}
        /\ ~Contains(u, " ")

\* the 422 response FastAPI returns when the request model cannot be built;
\* the handler body never runs
ValidationError(op, inputs) ==
    [op |-> op, inputs |-> inputs, net |-> <<>>, status |-> 422,
     detail |-> "validation error", body |-> None]

\* raise HTTPException(status_code, detail)
HttpError(op, inputs, net, status, detail) ==
    [op |-> op, inputs |-> inputs, net |-> net, status |-> status,
     detail |-> detail, body |-> None]

\* a handler's normal return
Ok(op, inputs, net, body) ==
    [op |-> op, inputs |-> inputs, net |-> net, status |-> 200,
     detail |-> "", body |-> Some(body)]

-----------------------------------------------------------------------------
(* seo_health.py: the pure helpers *)

\* dict.get(k, default) on a function used as a dict
Get(d, k, default) == IF k \in DOMAIN d THEN d[k] ELSE default

\* an empty dict, which Python takes as false
IsEmptyDict(d) == DOMAIN d = {}

\* the thresholds table of categorize_metric, in units of 1/10000
Thresholds ==
    [lcp  |-> [good |-> 25000,   needs_improvement |-> 40000],
     fid  |-> [good |-> 1000000, needs_improvement |-> 3000000],
     cls  |-> [good |-> 1000,    needs_improvement |-> 2500],
     fcp  |-> [good |-> 18000,   needs_improvement |-> 30000],
     ttfb |-> [good |-> 8000,    needs_improvement |-> 18000]]

Vitals == <<"lcp", "fid", "cls", "fcp", "ttfb">>

\* the comparison made strict: a value on a threshold falls to the worse side
categorize_metric_strict(value, metric_type) ==
    IF metric_type \notin DOMAIN Thresholds THEN "unknown"
    ELSE LET t == Thresholds[metric_type]
         IN  IF value < t.good THEN "good"
             ELSE IF value < t.needs_improvement THEN "needs_improvement"
             ELSE "poor"

categorize_metric(value, metric_type) ==
    IF metric_type \notin DOMAIN Thresholds THEN "unknown"
    ELSE LET t == Thresholds[metric_type]
         IN  IF value <= t.good THEN "good"
             ELSE IF value <= t.needs_improvement THEN "needs_improvement"
             ELSE "poor"

\* round(x, 3) on a value in units of 1/10000: the nearest multiple of 10,
\* a tie going to the even thousandth (the float may sit on either side of a
\* decimal tie; the inputs of the model avoid ties)
Round3(x) ==
    LET q == x \div 10
        r == x % 10
    IN  IF r < 5 THEN q * 10
        ELSE IF r > 5 THEN (q + 1) * 10
        ELSE IF q % 2 = 0 THEN q * 10 ELSE (q + 1) * 10

\* the Lighthouse audit each vital is read from, and the factor that takes the
\* audit's numericValue to the vital in units of 1/10000: a time audit is in
\* milliseconds and divided by 1000 (x10 in fixed point); FID is the total
\* blocking time / 1000 * 0.1 (x1); CLS is taken as it is, here already in
\* units of 1/10000
VitalAudit ==
    [lcp  |-> [audit |-> "largest-contentful-paint", factor |-> 10],
     fid  |-> [audit |-> "total-blocking-time",      factor |-> 1],
     cls  |-> [audit |-> "cumulative-layout-shift",  factor |-> 1],
     fcp  |-> [audit |-> "first-contentful-paint",   factor |-> 10],
     ttfb |-> [audit |-> "server-response-time",     factor |-> 10]]

\* x_data.get("numericValue", 0) / 1000 if x_data else None: an audit that is
\* missing, or an empty dict, gives None; a missing numericValue counts as 0
RawVital(audits, v) ==
    LET data == Get(audits, VitalAudit[v].audit, <<>>)
    IN  IF IsEmptyDict(data) THEN None
        ELSE Some(Get(data, "numericValue", 0) * VitalAudit[v].factor)

\* Python truthiness of an Optional number: None and 0 are both false
Truthy(o) == ~IsNone(o) /\ Val(o) # 0

\* extract_core_web_vitals: value and category of each vital, both guarded by
\* `if x`, the truthiness of the unrounded value
extract_core_web_vitals(lighthouse_result) ==
    LET audits == Get(lighthouse_result, "audits", <<>>)
    IN  [v \in {Vitals[i] : i \in 1..Len(Vitals)} |->
            LET x == RawVital(audits, v)
            IN  [value    |-> IF Truthy(x) THEN Some(Round3(Val(x))) ELSE None,
                 category |-> IF Truthy(x) THEN Some(categorize_metric(Val(x), v))
                              ELSE None]]

opportunity_audits ==
    <<"render-blocking-resources", "unused-css-rules", "unused-javascript",
      "modern-image-formats", "efficiently-encode-images", "offscreen-images",
      "minify-css", "minify-javascript", "remove-unused-css",
      "remove-unused-javascript", "uses-optimized-images",
      "uses-text-compression", "uses-responsive-images", "prioritize-lcp-image",
      "font-display">>

\* the audit's "score": None when the key is missing or null
AuditScore(audit) == Get(audit, "score", None)

\* the Opportunity built from one audit (scores in units of 1/10000)
OpportunityOf(audit_id, audit) ==
    [title       |-> Get(audit, "title", audit_id),
     description |-> Get(audit, "description", ""),
     score       |-> AuditScore(audit),
     savings     |-> Get(audit, "displayValue", ""),
     priority    |-> IF Val(AuditScore(audit)) < 5000 THEN "high" ELSE "medium"]

\* the loop of extract_opportunities: the listed audits, in list order, that
\* are present with a score below 1
RECURSIVE CollectOpportunities(_, _)
CollectOpportunities(audits, i) ==
    IF i > Len(opportunity_audits) THEN <<>>
    ELSE LET id    == opportunity_audits[i]
             audit == Get(audits, id, <<>>)
             rest  == CollectOpportunities(audits, i + 1)
         IN  IF ~IsEmptyDict(audit) /\ ~IsNone(AuditScore(audit))
                /\ Val(AuditScore(audit)) < 10000
             THEN <<OpportunityOf(id, audit)>> \o rest
             ELSE rest

\* the sort key `x.score or 1`: a score of None or of 0 is false, and counts 1
SortKey(opp) == IF Truthy(opp.score) THEN Val(opp.score) ELSE 10000

\* list.sort(key=...) is stable: insert each entry after the entries whose key
\* is not greater
RECURSIVE InsertByKey(_, _)
InsertByKey(sorted, opp) ==
    IF sorted = <<>> THEN <<opp>>
    ELSE IF SortKey(Head(sorted)) <= SortKey(opp)
         THEN <<Head(sorted)>> \o InsertByKey(Tail(sorted), opp)
         ELSE <<opp>> \o sorted

RECURSIVE SortByKey(_, _)
SortByKey(list, i) ==
    IF i = 0 THEN <<>> ELSE InsertByKey(SortByKey(list, i - 1), list[i])

extract_opportunities(lighthouse_result) ==
    LET found == CollectOpportunities(Get(lighthouse_result, "audits", <<>>), 1)
    IN  SortByKey(found, Len(found))

diagnostic_audits ==
    <<"mainthread-work-breakdown", "bootup-time", "uses-long-cache-ttl",
      "total-byte-weight", "dom-size", "network-requests", "network-rtt",
      "network-server-latency", "main-thread-tasks", "diagnostics", "metrics",
      "screenshot-thumbnails", "final-screenshot", "script-treemap-data">>

RECURSIVE CollectDiagnostics(_, _)
CollectDiagnostics(audits, i) ==
    IF i > Len(diagnostic_audits) THEN <<>>
    ELSE LET id    == diagnostic_audits[i]
             audit == Get(audits, id, <<>>)
             rest  == CollectDiagnostics(audits, i + 1)
         IN  IF ~IsEmptyDict(audit)
             THEN <<[id |-> id, title |-> Get(audit, "title", ""),
                     score |-> AuditScore(audit)]>> \o rest
             ELSE rest

extract_diagnostics(lighthouse_result) ==
    CollectDiagnostics(Get(lighthouse_result, "audits", <<>>), 1)

MsgPerfCritical ==
    "Critical: Performance score is very low. Prioritize optimizing images, reducing JavaScript, and implementing code splitting."

MsgPerfModerate ==
    "Performance needs improvement. Consider lazy loading images and deferring non-critical JavaScript."

MsgSeoScore ==
    "SEO Score could be improved. Check meta tags, headings structure, and ensure proper canonical URLs."

MsgAccessibility ==
    "Accessibility score needs attention. Add alt text to images and ensure proper color contrast."

MsgLcpPoor ==
    "LCP is poor. Optimize your largest content element (usually hero image) and improve server response time."

MsgClsPoor ==
    "CLS is poor. Reserve space for images and ads to prevent layout shifts."

MsgFidPoor ==
    "FID is poor. Reduce JavaScript execution time and break up long tasks."

MsgWellOptimized ==
    "Great job! Your website is well-optimized. Continue monitoring for any changes."

HighPriorityPrefix == "High Priority: "

\* the message of one high-priority opportunity
MsgOpportunity(opp) ==
    HighPriorityPrefix \o opp.title \o " - " \o Take(opp.description, 100) \o "..."

\* the entries of `list` that satisfy the rule, as the messages it appends
RECURSIVE OpportunityMessages(_)
OpportunityMessages(opps) ==
    IF opps = <<>> THEN <<>>
    ELSE (IF Head(opps).priority = "high" THEN <<MsgOpportunity(Head(opps))>> ELSE <<>>)
         \o OpportunityMessages(Tail(opps))

\* response.opportunities[:3]
FirstN(list, n) == SubSeq(list, 1, IF n < Len(list) THEN n ELSE Len(list))

\* generate_recommendations: every rule is evaluated, in this order
generate_recommendations(response) ==
    LET perf == response.performance_score
        seo  == response.seo_score
        acc  == response.accessibility_score
        cwv  == response.core_web_vitals
        recs ==
            (IF ~IsNone(perf) /\ Val(perf) < 50 THEN <<MsgPerfCritical>>
             ELSE IF ~IsNone(perf) /\ Val(perf) < 90 THEN <<MsgPerfModerate>>
             ELSE <<>>)
            \o (IF ~IsNone(seo) /\ Val(seo) < 90 THEN <<MsgSeoScore>> ELSE <<>>)
            \o (IF ~IsNone(acc) /\ Val(acc) < 90 THEN <<MsgAccessibility>> ELSE <<>>)
            \o (IF cwv.lcp.category = Some("poor") THEN <<MsgLcpPoor>> ELSE <<>>)
            \o (IF cwv.cls.category = Some("poor") THEN <<MsgClsPoor>> ELSE <<>>)
            \o (IF cwv.fid.category = Some("poor") THEN <<MsgFidPoor>> ELSE <<>>)
            \o OpportunityMessages(FirstN(response.opportunities, 3))
    IN  IF recs = <<>> THEN <<MsgWellOptimized>> ELSE recs

-----------------------------------------------------------------------------
(* seo_health.py: the synthetic result and the handler *)

\* the two ends of a sampled range: what random.randint / random.uniform may
\* return is modelled by the extremes of the range
Ends(lo, hi) == {lo, hi}

DemoOpportunities ==
    <<[title |-> "Eliminate render-blocking resources",
       description |-> "Resources are blocking the first paint of your page.",
       score |-> Some(4200), savings |-> "1.2s", priority |-> "high"],
      [title |-> "Properly size images",
       description |-> "Serve images that are appropriately-sized.",
       score |-> Some(6500), savings |-> "0.8s", priority |-> "medium"]>>

\* a synthetic result whose recommendation list was left empty
DemoRecommendationsMissing == <<>>

DemoRecommendations ==
    <<"Performance needs improvement. Consider lazy loading images.",
      "SEO Score could be improved. Check meta tags and headings.",
      "Accessibility score needs attention. Add alt text to images.">>

\* get_demo_seo_data: every draw of the random fields
get_demo_seo_data(url, strategy) ==
    { [url |-> url, strategy |-> strategy,
       performance_score |-> Some(p), seo_score |-> Some(s),
       accessibility_score |-> Some(a), best_practices_score |-> Some(b),
       core_web_vitals |->
           [lcp  |-> [value |-> Some(lcp), category |-> Some(lcpc)],
            fid  |-> [value |-> Some(fid), category |-> Some(fidc)],
            cls  |-> [value |-> Some(cls), category |-> Some(clsc)],
            fcp  |-> [value |-> Some(fcp), category |-> Some("good")],
            ttfb |-> [value |-> Some(ttfb), category |-> Some("good")]],
       opportunities |-> DemoOpportunities,
       diagnostics |-> <<>>,
       demo_mode |-> TRUE,
       recommendations |-> DemoRecommendations] :
      p \in Ends(60, 95), s \in Ends(70, 95), a \in Ends(65, 90), b \in Ends(75, 98),
      lcp \in Ends(15000, 35000),
      lcpc \in {"good", "needs_improvement", "poor"},
      fid \in Ends(100000, 1500000), fidc \in {"good", "needs_improvement"},
      cls \in Ends(100, 2500),
      clsc \in {"good", "needs_improvement", "poor"},
      fcp \in Ends(10000, 25000), ttfb \in Ends(4000, 12000) }

\* int(category.get("score", 0) * 100) if category.get("score") is not None
\* else None, for a score in units of 1/10000
CategoryScore(categories, name) ==
    LET score == AuditScore(Get(categories, name, <<>>))
    IN  IF IsNone(score) THEN None ELSE Some(Val(score) \div 100)

\* the body of the try block after the reply arrived: the SEOHealthResponse
\* built from the Lighthouse result, with its recommendations
SeoResponseOf(url, strategy, data) ==
    LET lighthouse == Get(data, "lighthouseResult", <<>>)
        categories == Get(lighthouse, "categories", <<>>)
        built ==
            [url |-> url, strategy |-> strategy,
             performance_score |-> CategoryScore(categories, "performance"),
             seo_score |-> CategoryScore(categories, "seo"),
             accessibility_score |-> CategoryScore(categories, "accessibility"),
             best_practices_score |-> CategoryScore(categories, "best-practices"),
             core_web_vitals |-> extract_core_web_vitals(lighthouse),
             opportunities |-> extract_opportunities(lighthouse),
             diagnostics |-> extract_diagnostics(lighthouse),
             demo_mode |-> FALSE,
             recommendations |-> <<>>]
    IN  [built EXCEPT !.recommendations = generate_recommendations(built)]

SeoOp == "analyze_seo_health"

\* one outbound network call: the service called and what the call came to
NetCall(to, reply) == [to |-> to, reply |-> reply]

PageSpeedCall(reply) == NetCall("pagespeed", reply)

\* analyze_seo_health without a credential (lines 295-297): the synthetic
\* result; SEOHealthResponse requires strategy to be a string, and the
\* validation error of a null strategy is raised outside the try block
SeoDemoOutcomes(inputs) ==
    IF IsNone(inputs.strategy)
    THEN {HttpError(SeoOp, inputs, <<>>, 500, "Internal Server Error")}
    ELSE {Ok(SeoOp, inputs, <<>>, d) : d \in get_demo_seo_data(inputs.url, Val(inputs.strategy))}

\* a single `except Exception` clause: every failure becomes the same 500
SeoLiveFailureGeneric(inputs, reply) ==
    HttpError(SeoOp, inputs, <<PageSpeedCall(reply)>>, 500,
              "Error analyzing SEO health: request failed")

\* the except clauses of analyze_seo_health (lines 347-361): an upstream error
\* status is passed through with the upstream body, a timeout is a 504, any
\* other exception a 500 carrying the exception's text
SeoLiveFailure(inputs, reply) ==
    CASE reply.kind = "status" ->
            HttpError(SeoOp, inputs, <<PageSpeedCall(reply)>>, reply.code,
                      "PageSpeed Insights API error: " \o reply.text)
      [] reply.kind = "timeout" ->
            HttpError(SeoOp, inputs, <<PageSpeedCall(reply)>>, 504,
                      "Request to PageSpeed Insights API timed out. Please try again.")
      [] OTHER ->
            HttpError(SeoOp, inputs, <<PageSpeedCall(reply)>>, 500,
                      "Error analyzing SEO health: " \o reply.text)

\* the try block once the reply arrived with a success status (lines 312-345);
\* SEOHealthResponse requires strategy to be a string, and here its
\* validation error is caught by `except Exception`
SeoLiveSuccess(inputs, reply) ==
    IF IsNone(inputs.strategy)
    THEN HttpError(SeoOp, inputs, <<PageSpeedCall(reply)>>, 500,
                   "Error analyzing SEO health: validation error for SEOHealthResponse")
    ELSE Ok(SeoOp, inputs, <<PageSpeedCall(reply)>>,
            SeoResponseOf(inputs.url, Val(inputs.strategy), reply.data))

\* analyze_seo_health with a credential (lines 299-361): one GET to PageSpeed,
\* then the reply is mapped or the failure is turned into an HTTPException
SeoLiveOutcome(inputs, reply) ==
    IF reply.kind = "ok" THEN SeoLiveSuccess(inputs, reply)
    ELSE SeoLiveFailure(inputs, reply)

\* one Lighthouse audit entry carrying a numericValue
Timing(n) == [numericValue |-> n]

\* one Lighthouse opportunity audit entry with a score (Optional, 1/10000)
Scored(title, score) ==
    [title |-> title, description |-> "Details of " \o title, score |-> score,
     displayValue |-> "Potential savings"]

\* a category entry of the Lighthouse result
Category(score) == [score |-> score]

\* a fast page: every score high, every vital good, nothing to improve
LhFast ==
    [categories |->
        [performance |-> Category(Some(9500)), seo |-> Category(Some(10000)),
         accessibility |-> Category(Some(9000))],
     audits |->
        ("largest-contentful-paint" :> Timing(2000)
         @@ "total-blocking-time" :> Timing(50)
         @@ "cumulative-layout-shift" :> Timing(500)
         @@ "first-contentful-paint" :> Timing(1200)
         @@ "server-response-time" :> Timing(300)
         @@ "font-display" :> Scored("Font display", Some(10000))
         @@ "dom-size" :> Scored("DOM size", Some(9000)))]

\* a slow page: low scores, poor vitals, several opportunities
LhSlow ==
    [categories |->
        [performance |-> Category(Some(3000)), seo |-> Category(Some(8000)),
         accessibility |-> Category(Some(7000)), unscored |-> Category(None)],
     audits |->
        ("largest-contentful-paint" :> Timing(5000)
         @@ "total-blocking-time" :> Timing(600)
         @@ "cumulative-layout-shift" :> Timing(3000)
         @@ "first-contentful-paint" :> Timing(3500)
         @@ "server-response-time" :> Timing(2000)
         @@ "render-blocking-resources" :> Scored("Render blocking", Some(3000))
         @@ "unused-css-rules" :> Scored("Unused CSS", Some(0))
         @@ "unused-javascript" :> Scored("Unused JavaScript", Some(4500))
         @@ "modern-image-formats" :> Scored("Image formats", Some(2000))
         @@ "offscreen-images" :> Scored("Offscreen images", Some(8000))
         @@ "minify-css" :> Scored("Minify CSS", None)
         @@ "bootup-time" :> Scored("Bootup time", Some(4000)))]

\* a page on the boundaries: vitals exactly on a threshold or exactly 0, a
\* performance score of 0.5, one medium opportunity
LhEdge ==
    [categories |->
        [performance |-> Category(Some(5000)), seo |-> Category(Some(9000))],
     audits |->
        ("largest-contentful-paint" :> Timing(2500)
         @@ "total-blocking-time" :> Timing(0)
         @@ "cumulative-layout-shift" :> Timing(0)
         @@ "first-contentful-paint" :> Timing(3000)
         @@ "server-response-time" :> [displayValue |-> "n/a"]
         @@ "uses-text-compression" :> Scored("Text compression", Some(5000)))]

\* the JSON bodies PageSpeed may answer with
PageSpeedPayloads ==
    { <<>>,
      [lighthouseResult |-> LhFast],
      [lighthouseResult |-> LhSlow],
      [lighthouseResult |-> LhEdge] }

\* the status codes of an upstream error answer (raise_for_status)
UpstreamStatusCodes == {400, 403, 429, 500, 503}

\* what the GET to PageSpeed may come to
PageSpeedReplies ==
    {[kind |-> "ok", data |-> d] : d \in PageSpeedPayloads}
    \cup {[kind |-> "status", code |-> c, text |-> "upstream said no"] :
            c \in UpstreamStatusCodes}
    \cup {[kind |-> "timeout"]}
    \cup {[kind |-> "error", text |-> "connection refused"]}

\* the URLs a client may send: valid absolute URLs and malformed ones
Urls == {"https://example.com/", "http://city.gov/", "example.com", ""}

\* the strategy field: Optional[str], "mobile" by default
Strategies == {Some("mobile"), Some("desktop"), None}

\* POST /api/seo/analyze
AnalyzeSeoHealthFor(urls, strategies) ==
    /\ Idle
    /\ \E url \in urls, strategy \in strategies :
         LET inputs == [url |-> url, strategy |-> strategy]
         IN  IF ~IsHttpUrl(url)
             THEN call' = ValidationError(SeoOp, inputs)
             ELSE IF cfg.PAGESPEED_API_KEY = ""
             THEN call' \in SeoDemoOutcomes(inputs)
             ELSE \E reply \in PageSpeedReplies :
                    call' = SeoLiveOutcome(inputs, reply)
    /\ UNCHANGED <<settings, cfg, phase, files, gen>>

AnalyzeSeoHealth == AnalyzeSeoHealthFor(Urls, Strategies)

\* the settings this specification leaves unconfigured
Unconfigured(fields) == \A f \in fields : settings[f] = ""

SeoNext == Startup \/ AnalyzeSeoHealth \/ Respond

InitSeo ==
    Init /\ Unconfigured({"gemini_api_key", "apify_api_token", "bing_api_key", "DEBUG"})

\* the SEO health endpoint alone, the PageSpeed credential configured or not
SpecSeo == InitSeo /\ [][SeoNext]_vars

-----------------------------------------------------------------------------
(* Properties of the SEO health endpoint *)

\* the last invocation was of handler op and got past request validation
Handled(op) == call.op = op /\ call.status # 422

ScoreFields ==
    {"performance_score", "seo_score", "accessibility_score", "best_practices_score"}

\* C1: with no PageSpeed credential configured, analyze_seo_health for a valid
\* URL and a strategy string issues no network call, answers 200, and its
\* result carries four scores within 0..100 and a non-empty recommendation list.
C1_DemoNeverFails ==
    (Handled(SeoOp) /\ cfg.PAGESPEED_API_KEY = "" /\ ~IsNone(call.inputs.strategy))
    => /\ call.net = <<>>
       /\ call.status = 200
       /\ \A f \in ScoreFields :
            /\ ~IsNone(Val(call.body)[f])
            /\ Val(Val(call.body)[f]) \in 0..100
       /\ Val(call.body).recommendations # <<>>

\* C1 witness: a synthetic result was returned for a desktop analysis
C1_Witness ==
    /\ Handled(SeoOp)
    /\ cfg.PAGESPEED_API_KEY = ""
    /\ call.inputs.strategy = Some("desktop")
    /\ call.status = 200
    /\ Val(call.body).demo_mode
    /\ Val(call.body).performance_score = Some(95)

\* the live call of the last SEO invocation failed
SeoLiveFailed ==
    /\ Handled(SeoOp)
    /\ cfg.PAGESPEED_API_KEY # ""
    /\ call.net # <<>>
    /\ call.net[1].reply.kind # "ok"

-----------------------------------------------------------------------------
(* geo_module.py: clean_domain *)

\* re.sub(r'^https?://', '', s)
StripScheme(s) ==
    IF StartsWith(s, "http://") THEN Drop(s, 7)
    ELSE IF StartsWith(s, "https://") THEN Drop(s, 8)
    ELSE s

\* re.sub(r'^www\.', '', s)
StripWww(s) == IF StartsWith(s, "www.") THEN Drop(s, 4) ELSE s

\* clean_domain: lower-case and strip, drop one scheme prefix, then one
\* leading "www.", then the trailing slashes
clean_domain(domain) ==
    RStripChar(StripWww(StripScheme(Strip(Lower(domain)))), "/")

\* the pieces domain strings are put together from
DomainPieces ==
    {"http://", "https://", "HTTP://", "www.", "WWW.", "/", " ", "a.io", "Site.com"}

\* the number of pieces of a domain string
MaxParts == 3

\* every concatenation of at most n pieces
RECURSIVE Concats(_)
Concats(n) ==
    IF n = 0 THEN {""}
    ELSE LET shorter == Concats(n - 1)
         IN  shorter \cup {a \o b : a \in shorter, b \in DomainPieces}

DomainInputs == Concats(MaxParts)

CleanOp == "clean_domain"

\* a domain string is given
InitClean ==
    /\ settings \in SettingsValues
    /\ Unconfigured({"pagespeed_api_key", "gemini_api_key", "apify_api_token",
                     "bing_api_key", "DEBUG"})
    /\ cfg = ModuleDefaults
    /\ phase = "import"
    /\ call \in {[op |-> CleanOp, domain |-> d, results |-> <<>>] : d \in DomainInputs}
    /\ files = <<>>
    /\ gen = <<>>

\* clean_domain is applied to the domain string
CleanFirst ==
    /\ call.op = CleanOp
    /\ call.results = <<>>
    /\ call' = [call EXCEPT !.results = <<clean_domain(call.domain)>>]
    /\ UNCHANGED <<settings, cfg, phase, files, gen>>

\* clean_domain is applied to its own result
CleanAgain ==
    /\ call.op = CleanOp
    /\ Len(call.results) = 1
    /\ call' = [call EXCEPT !.results = Append(@, clean_domain(call.results[1]))]
    /\ UNCHANGED <<settings, cfg, phase, files, gen>>

CleanNext == CleanFirst \/ CleanAgain

\* clean_domain as a function of its argument, applied once and twice
SpecClean == InitClean /\ [][CleanNext]_vars

\* C10: clean_domain is idempotent, and its result has no http(s) scheme
\* prefix, no leading "www." and no trailing slash.
C10_Idempotent ==
    (call.op = CleanOp /\ Len(call.results) = 2)
    => /\ call.results[2] = call.results[1]
       /\ ~StartsWith(call.results[1], "http://")
       /\ ~StartsWith(call.results[1], "https://")
       /\ ~StartsWith(call.results[1], "www.")
       /\ ~(Len(call.results[1]) > 0 /\ Char(call.results[1], Len(call.results[1])) = "/")

-----------------------------------------------------------------------------
(* geo_module.py: the regular expressions, matched by hand. Every step of a  *)
(* match is an operator that is handed the position the step before it       *)
(* reached; position 0 stands for "no match".                                *)

Digits == {"0", "1", "2", "3", "4", "5", "6", "7", "8", "9"}

LowerLetters ==
    {"a", "b", "c", "d", "e", "f", "g", "h", "i", "j", "k", "l", "m",
     "n", "o", "p", "q", "r", "s", "t", "u", "v", "w", "x", "y", "z"}

UpperLetters ==
    {"A", "B", "C", "D", "E", "F", "G", "H", "I", "J", "K", "L", "M",
     "N", "O", "P", "Q", "R", "S", "T", "U", "V", "W", "X", "Y", "Z"}

\* \w
WordChars == LowerLetters \cup UpperLetters \cup Digits \cup {"_"}

\* \s
SpaceChars == {" ", "\t", "\n", "\r"}

\* the literal `lit` stands at position i of s
At(s, i, lit) == i >= 1 /\ i + Len(lit) - 1 <= Len(s) /\ SubSeq(s, i, i + Len(lit) - 1) = lit

\* the length of the longest run of characters of `class` that starts at i
Span(s, i, class) ==
    IF i > Len(s) THEN 0
    ELSE (CHOOSE j \in i..(Len(s) + 1) :
            /\ j > Len(s) \/ Char(s, j) \notin class
            /\ \A k \in i..(j - 1) : Char(s, k) \in class) - i

\* the length of the longest run of characters other than c that starts at i
SpanNot(s, i, c) ==
    IF i > Len(s) THEN 0
    ELSE (CHOOSE j \in i..(Len(s) + 1) :
            /\ j > Len(s) \/ Char(s, j) = c
            /\ \A k \in i..(j - 1) : Char(s, k) # c) - i

\* the least element of a non-empty set of numbers
Min(S) == CHOOSE x \in S : \A y \in S : x <= y

\* one of the positions `ends` (at most one qualifies) that holds white space
SpacedEnd(s, ends) ==
    IF \E e \in ends : e <= Len(s) /\ Char(s, e) \in SpaceChars
    THEN CHOOSE e \in ends : e <= Len(s) /\ Char(s, e) \in SpaceChars
    ELSE 0

\* (?:lit1|lit2|...) at i with white space after it: the position just after
\* the literal
LitBeforeWs(s, i, lits) ==
    IF i = 0 THEN 0 ELSE SpacedEnd(s, {i + Len(t) : t \in {u \in lits : At(s, i, u)}})

\* the position after the white space that starts at j
PastWs(s, j) == IF j = 0 THEN 0 ELSE j + Span(s, j, SpaceChars)

\* (?:lit1|lit2|...)\s+ at i: the position after the white space
LitWs(s, i, lits) == PastWs(s, LitBeforeWs(s, i, lits))

\* \w+ from g up to a "." at position dot, then \w+ up to position stop - 1
DomainEnd(s, g, dot, stop) == IF stop > dot + 1 THEN <<SubSeq(s, g, stop - 1)>> ELSE <<>>

DomainTail(s, g, dot) ==
    IF dot > g /\ At(s, dot, ".")
    THEN DomainEnd(s, g, dot, dot + 1 + Span(s, dot + 1, WordChars))
    ELSE <<>>

\* (\w+\.\w+) at g
DomainGroup(s, g) == IF g = 0 THEN <<>> ELSE DomainTail(s, g, g + Span(s, g, WordChars))

\* (?:about|is|are)\s+(\w+\.\w+) tried at position i: the captured group as
\* <<group>>, or <<>> when the pattern does not match there
DomainMatchAt(s, i) == DomainGroup(s, LitWs(s, i, {"about", "is", "are"}))

DomainAtFirst(s, hits) == IF hits = {} THEN <<>> ELSE DomainMatchAt(s, Min(hits))

\* re.search of the domain pattern: the group of the leftmost match, or <<>>
DomainSearch(s) == DomainAtFirst(s, {i \in 1..Len(s) : DomainMatchAt(s, i) # <<>>})

\* \s+([\w\s]+)\? from j, white space up to g - 1 and the run of word and
\* space characters up to stop - 1: the greedy \s+ keeps every leading white
\* space unless the group would be left empty, and then gives one back
KeywordRun(s, j, g, stop) ==
    IF stop - j >= 2 /\ At(s, stop, "?")
    THEN IF g < stop THEN <<SubSeq(s, g, stop - 1)>> ELSE <<Char(s, stop - 1)>>
    ELSE <<>>

KeywordGroup(s, j) ==
    IF j = 0 THEN <<>>
    ELSE KeywordRun(s, j, PastWs(s, j), j + Span(s, j, WordChars \cup SpaceChars))

\* (?:for|tools?)\s+([\w\s]+)\? tried at position i
KeywordMatchAt(s, i) == KeywordGroup(s, LitBeforeWs(s, i, {"for", "tools", "tool"}))

KeywordAtFirst(s, hits) == IF hits = {} THEN <<>> ELSE KeywordMatchAt(s, Min(hits))

KeywordSearch(s) == KeywordAtFirst(s, {i \in 1..Len(s) : KeywordMatchAt(s, i) # <<>>})

TemplateAbout(domain, keyword) ==
    "\n"
    \o domain
    \o " is a well-known platform in the "
    \o keyword
    \o " space. They offer comprehensive solutions for businesses.\n"
    \o "\n"
    \o "Some of their main competitors include:\n"
    \o "1. CompetitorA.com - Leading provider with excellent features\n"
    \o "2. CompetitorB.io - Popular choice for small businesses\n"
    \o "3. "
    \o domain
    \o " - Great for enterprise solutions\n"
    \o "4. CompetitorC.net - Budget-friendly option\n"
    \o "5. CompetitorD.co - Newer player with innovative features\n"
    \o "\n"
    \o domain
    \o " is particularly known for their user-friendly interface and reliable service.\n"

TemplateBest(domain, keyword) ==
    "\n"
    \o "Here are the best tools for "
    \o keyword
    \o ":\n"
    \o "\n"
    \o "1. CompetitorA.com - Industry leader with 95% customer satisfaction\n"
    \o "2. "
    \o domain
    \o " - Highly recommended for its comprehensive features\n"
    \o "3. CompetitorB.io - Great for beginners and small teams\n"
    \o "4. CompetitorC.net - Enterprise-focused with advanced analytics\n"
    \o "5. CompetitorD.co - Affordable option with good basic features\n"
    \o "\n"
    \o domain
    \o " stands out for its excellent customer support and regular updates.\n"

TemplateOther(domain, keyword) ==
    "\n"
    \o "Based on my knowledge, "
    \o domain
    \o " is a significant player in the "
    \o keyword
    \o " market.\n"
    \o "\n"
    \o "Key points about "
    \o domain
    \o ":\n"
    \o "- Established reputation in the industry\n"
    \o "- Used by many professionals\n"
    \o "- Offers competitive features\n"
    \o "- Generally positive user reviews\n"
    \o "\n"
    \o "Competitors in this space include CompetitorA, CompetitorB, and CompetitorC.\n"

\* domain = domain_match.group(1) if domain_match else "example.com"
DomainOr(domain_match) == IF domain_match # <<>> THEN domain_match[1] ELSE "example.com"

\* keyword = keyword_match.group(1).strip() if keyword_match else "SEO tools"
KeywordOr(keyword_match) == IF keyword_match # <<>> THEN Strip(keyword_match[1]) ELSE "SEO tools"

\* the template chosen by the words of the lower-cased prompt
SimulatedText(lower, domain, keyword) ==
    IF Contains(lower, "what is") \/ Contains(lower, "who are")
    THEN TemplateAbout(domain, keyword)
    ELSE IF Contains(lower, "best") \/ Contains(lower, "tools")
    THEN TemplateBest(domain, keyword)
    ELSE TemplateOther(domain, keyword)

SimulatedFor(lower) ==
    SimulatedText(lower, DomainOr(DomainSearch(lower)), KeywordOr(KeywordSearch(lower)))

\* generate_simulated_response: the template text for a prompt
generate_simulated_response(prompt) == SimulatedFor(Lower(prompt))

-----------------------------------------------------------------------------
(* geo_module.py: extract_sentiment, extract_rank, extract_competitors *)

positive_words ==
    {"best", "excellent", "great", "amazing", "top", "leading", "recommended",
     "popular", "trusted"}

negative_words ==
    {"worst", "bad", "poor", "terrible", "avoid", "issues", "problems", "scam",
     "unreliable"}

\* the context window kept on each side of the brand
ContextWindow == 100

\* sum(1 for word in words if word in context): the listed words that occur
HitCount(words, context) == Cardinality({w \in words : Contains(context, w)})

Sentiment(pos_count, neg_count) ==
    IF pos_count > neg_count THEN "positive"
    ELSE IF neg_count > pos_count THEN "negative"
    ELSE "neutral"

\* the sentiment of the context text_lower[start:stop]
SentimentIn(context) ==
    Sentiment(HitCount(positive_words, context), HitCount(negative_words, context))

\* the verdict for the brand found at the 0-based position brand_pos, -1 when
\* it is not in the text
SentimentAt(text_lower, text_len, brand_len, brand_pos) ==
    IF brand_pos = -1 THEN "neutral"
    ELSE SentimentIn(SubSeq(text_lower,
                            (IF brand_pos - ContextWindow > 0
                             THEN brand_pos - ContextWindow ELSE 0) + 1,
                            IF brand_pos + brand_len + ContextWindow < text_len
                            THEN brand_pos + brand_len + ContextWindow ELSE text_len))

SentimentOf(text_lower, brand_lower, text_len, brand_len) ==
    SentimentAt(text_lower, text_len, brand_len, Find(text_lower, brand_lower) - 1)

extract_sentiment(text, brand) == SentimentOf(Lower(text), Lower(brand), Len(text), Len(brand))

\* the first piece of s.split(sep) ends before position cut
RECURSIVE SplitOn(_, _)
SplitFrom(s, sep, n) ==
    IF n = Len(s) THEN <<s>> ELSE <<Take(s, n)>> \o SplitOn(Drop(s, n + 1), sep)

\* str.split(sep) for a one-character separator
SplitOn(s, sep) == SplitFrom(s, sep, SpanNot(s, 1, sep))

DigitValue(c) ==
    CASE c = "0" -> 0 [] c = "1" -> 1 [] c = "2" -> 2 [] c = "3" -> 3 [] c = "4" -> 4
      [] c = "5" -> 5 [] c = "6" -> 6 [] c = "7" -> 7 [] c = "8" -> 8 [] c = "9" -> 9

\* int(digits)
RECURSIVE ParseInt(_)
ParseInt(digits) ==
    IF digits = "" THEN 0
    ELSE 10 * ParseInt(Take(digits, Len(digits) - 1)) + DigitValue(Char(digits, Len(digits)))

\* [.\-)] at position k
SeparatorChar(line, k) == k <= Len(line) /\ Char(line, k) \in {".", "-", ")"}

\* (\d+) from first to stop - 1, then \s*[.\-)]
RankNumber(line, first, stop) ==
    IF stop > first /\ SeparatorChar(line, stop + Span(line, stop, SpaceChars))
    THEN <<ParseInt(SubSeq(line, first, stop - 1))>>
    ELSE <<>>

RankDigits(line, first) == RankNumber(line, first, first + Span(line, first, Digits))

\* re.match(r'^\s*(\d+)\s*[.\-)]\s*', line): the number as <<n>>, or <<>>
RankPrefix(line) == RankDigits(line, 1 + Span(line, 1, SpaceChars))

\* the rank read from line i (1-based): the number it starts with, else i
RankOf(i, match) == IF match # <<>> THEN Some(match[1]) ELSE Some(i)

RankAmong(lines, hits) ==
    IF hits = {} THEN None ELSE RankOf(Min(hits), RankPrefix(lines[Min(hits)]))

RankIn(lines, brand_lower) ==
    RankAmong(lines, {i \in 1..Len(lines) : Contains(Lower(lines[i]), brand_lower)})

\* extract_rank: the first line that holds the brand decides
extract_rank(text, brand) == RankIn(SplitOn(text, "\n"), Lower(brand))

\* the capture ([^\.]+) when the white space after position k ends before g
\* and the run of characters other than "." before stop: <<group, last>> with
\* the index of the group's last character, or <<>>; when no character other
\* than "." follows the white space, the \s+ gives one back
ClauseRun(s, k, g, stop) ==
    IF g > k /\ stop > g THEN <<SubSeq(s, g, stop - 1), stop - 1>>
    ELSE IF g - k >= 2 THEN <<Char(s, g - 1), g - 1>>
    ELSE <<>>

ClauseFrom(s, k, g) == ClauseRun(s, k, g, g + SpanNot(s, g, "."))

\* \s+([^\.]+) at k
TrailingClause(s, k) == IF k = 0 THEN <<>> ELSE ClauseFrom(s, k, PastWs(s, k))

\* (?:lit1|lit2|...) at i: the position after the literal (the literals of one
\* such group never match at the same place)
LitEnd(s, i, lits) ==
    IF i = 0 \/ \A t \in lits : ~At(s, i, t) THEN 0
    ELSE i + Len(CHOOSE t \in lits : At(s, i, t))

\* (?:competitors?|alternatives?|similar|like|vs|versus)\s+(?:include|are|:)\s+([^\.]+)
CompetitorPatternAt(s, i) ==
    TrailingClause(s,
        LitEnd(s, LitWs(s, i, {"competitor", "competitors", "alternative",
                               "alternatives", "similar", "like", "vs", "versus"}),
               {"include", "are", ":"}))

\* (?:popular\s+)? at j, where jp is the position after "popular" and its
\* white space, or 0
Optional(j, jp) == IF jp > 0 THEN jp ELSE j

OptionalPopular(s, j) == Optional(j, LitWs(s, j, {"popular"}))

\* (?:other|top)\s+(?:popular\s+)?(?:options?|tools?|platforms?)\s+(?:include|:)\s+([^\.]+)
OptionPatternAt(s, i) ==
    TrailingClause(s,
        LitEnd(s, LitWs(s, OptionalPopular(s, LitWs(s, i, {"other", "top"})),
                        {"option", "options", "tool", "tools", "platform", "platforms"}),
               {"include", ":"}))

\* the pattern numbered p tried at position i
PatternAt(p, s, i) == IF p = 1 THEN CompetitorPatternAt(s, i) ELSE OptionPatternAt(s, i)

\* the groups of the non-overlapping matches from the left, `hits` being the
\* positions not yet passed at which the pattern matches
RECURSIVE Matches(_, _, _)
MatchThen(p, s, hits, m) == <<m[1]>> \o Matches(p, s, {i \in hits : i > m[2]})

Matches(p, s, hits) ==
    IF hits = {} THEN <<>> ELSE MatchThen(p, s, hits, PatternAt(p, s, Min(hits)))

\* re.findall(pattern, s)
FindAll(p, s) == Matches(p, s, {i \in 1..Len(s) : PatternAt(p, s, i) # <<>>})

\* \b at the gap before position i: exactly one neighbour is a word character
Boundary(s, i) ==
    (i > 1 /\ i - 1 <= Len(s) /\ Char(s, i - 1) \in WordChars)
    # (i <= Len(s) /\ Char(s, i) \in WordChars)

\* the length of the separator of r',|\band\b|\bor\b' that stands at i, or 0
SeparatorAt(s, i) ==
    IF At(s, i, ",") THEN 1
    ELSE IF At(s, i, "and") /\ Boundary(s, i) /\ Boundary(s, i + 3) THEN 3
    ELSE IF At(s, i, "or") /\ Boundary(s, i) /\ Boundary(s, i + 2) THEN 2
    ELSE 0

\* the first separator at or after start, Len(s) + 1 when there is none
NextSeparator(s, start) ==
    CHOOSE j \in start..(Len(s) + 1) :
        /\ j > Len(s) \/ SeparatorAt(s, j) > 0
        /\ \A k \in start..(j - 1) : SeparatorAt(s, k) = 0

\* re.split(r',|\band\b|\bor\b', s): the items of s from `start` on, cut at
\* each separator in turn from the left
RECURSIVE SplitItems(_, _)
CutAt(s, start, i) ==
    IF i > Len(s) THEN <<SubSeq(s, start, Len(s))>>
    ELSE <<SubSeq(s, start, i - 1)>> \o SplitItems(s, i + SeparatorAt(s, i))

SplitItems(s, start) == CutAt(s, start, NextSeparator(s, start))

\* item.strip() of every item that passes the filter of extract_competitors
Kept(items, brand_lower) ==
    {item \in {Strip(items[k]) : k \in 1..Len(items)} :
        item # "" /\ ~Contains(item, brand_lower) /\ Len(item) > 2}

\* the competitors named by the matched clauses
RECURSIVE KeptItems(_, _, _)
KeptItems(clauses, i, brand_lower) ==
    IF i > Len(clauses) THEN {}
    ELSE Kept(SplitItems(clauses[i], 1), brand_lower)
         \cup KeptItems(clauses, i + 1, brand_lower)

\* the most competitors one probe reports
MaxCompetitors == 5

\* every name found is returned
AllOfSet(found) == {found}

\* list(set(competitors))[:5]: the order of a set is arbitrary, so the result
\* is held as a set, and when more than five names were found any five of
\* them may be the ones returned
FirstOfSet(found) ==
    IF Cardinality(found) <= MaxCompetitors THEN {found}
    ELSE {kept \in SUBSET found : Cardinality(kept) = MaxCompetitors}

\* set(competitors): the distinct names the two patterns find
FoundIn(text_lower, brand_lower) ==
    KeptItems(FindAll(1, text_lower) \o FindAll(2, text_lower), 1, brand_lower)

CompetitorSet(text, brand) == FoundIn(Lower(text), Lower(brand))

\* extract_competitors: the results the call may return
extract_competitors(text, brand) == FirstOfSet(CompetitorSet(text, brand))

-----------------------------------------------------------------------------
(* geo_module.py: the probes query_gemini and query_chatgpt *)

GeoOp == "analyze_geo"

\* {"candidates": [{"content": {"parts": [{"text": text}]}}]}
Candidates(text) == <<[content |-> [parts |-> <<[text |-> text]>>]]>>

\* str(e) of the exception a failed call to Gemini raises
ErrorText(reply) ==
    CASE reply.kind = "status"  -> "Client error '" \o ToString(reply.code) \o "'"
      [] reply.kind = "timeout" -> "timed out"
      [] OTHER                  -> "Expecting value: line 1 column 1 (char 0)"

\* what a probe comes to: the dict it returns, or the exception it lets out,
\* and the network calls it made
Returned(result, net) == [raised |-> FALSE, result |-> result, net |-> net]

\* the probe without its except clause: the failure of the call goes out
GeminiProbeUnguarded(prompt, key, reply, simulated) ==
    IF key = ""
    THEN Returned([simulated |-> TRUE,
                   response |-> "Simulated Gemini response for: " \o Take(prompt, 50) \o "...",
                   candidates |-> simulated], <<>>)
    ELSE IF reply.kind = "ok" THEN Returned(reply.json, <<NetCall("gemini", reply)>>)
    ELSE [raised |-> TRUE, result |-> [error |-> ErrorText(reply)],
          net |-> <<NetCall("gemini", reply)>>]

\* the body of query_gemini, `simulated` being the candidates list built
\* around the template text: without a credential the template and no call;
\* with one, a POST whose JSON body is returned as it is; any exception is
\* answered with the template
GeminiProbe(prompt, key, reply, simulated) ==
    IF key = ""
    THEN Returned([simulated |-> TRUE,
                   response |-> "Simulated Gemini response for: " \o Take(prompt, 50) \o "...",
                   candidates |-> simulated], <<>>)
    ELSE IF reply.kind = "ok" THEN Returned(reply.json, <<NetCall("gemini", reply)>>)
    ELSE Returned([error |-> ErrorText(reply), simulated |-> TRUE, candidates |-> simulated],
                  <<NetCall("gemini", reply)>>)

query_gemini(prompt, key, reply) ==
    GeminiProbe(prompt, key, reply, Candidates(generate_simulated_response(prompt)))

\* query_chatgpt: the template with or without a token; no call is made
query_chatgpt(prompt, token) ==
    Returned([simulated |-> TRUE, response |-> generate_simulated_response(prompt)], <<>>)

\* parts[0].get("text", "") as <<text>>, or <<>> when parts is empty and the
\* index raises
TextOfParts(parts) == IF Len(parts) = 0 THEN <<>> ELSE <<Get(parts[1], "text", "")>>

TextOfCandidates(candidates) ==
    IF Len(candidates) = 0 THEN <<>>
    ELSE TextOfParts(Get(Get(candidates[1], "content", <<>>), "parts", << <<>> >>))

\* response.get("candidates", [{}])[0].get("content", {}).get("parts", [{}])[0]
\* .get("text", ""): the text as <<text>>, or <<>> when a list is empty and
\* the index raises
GeminiText(response) == TextOfCandidates(Get(response, "candidates", << <<>> >>))

-----------------------------------------------------------------------------
(* geo_module.py: analyze_geo *)

\* the two queries analyze_geo asks about one keyword
RECURSIVE KeywordQueries(_)
KeywordQueries(keywords) ==
    IF keywords = <<>> THEN <<>>
    ELSE <<"What are the best tools for " \o Head(keywords) \o "?",
           "Compare top " \o Head(keywords) \o " platforms">>
         \o KeywordQueries(Tail(keywords))

\* the keywords analyze_geo asks about
MaxKeywords == 3

\* a query list that asks about every keyword of the request
QueriesOfAllKeywords(domain, keywords) ==
    <<"What is " \o domain \o "?",
      "Who are the main competitors of " \o domain \o "?">>
    \o KeywordQueries(keywords)

\* the query list of analyze_geo (lines 398-407)
Queries(domain, keywords) ==
    <<"What is " \o domain \o "?",
      "Who are the main competitors of " \o domain \o "?">>
    \o KeywordQueries(FirstN(keywords, MaxKeywords))

\* the characters of the response kept as context
ContextLength == 500

\* the BrandMention of one response text, but for its competitors
BaseMention(platform, query, text, domain, mentioned) ==
    [platform  |-> platform,
     query     |-> query,
     mentioned |-> mentioned,
     context   |-> IF mentioned THEN Some(Take(text, ContextLength)) ELSE None,
     sentiment |-> IF mentioned THEN Some(extract_sentiment(text, domain)) ELSE None,
     rank      |-> IF mentioned THEN extract_rank(text, domain) ELSE None]

\* the competitors extracted only for a text that mentions the brand
WithCompetitorsOfMentioned(base, text, domain, check_competitors) ==
    IF check_competitors /\ base.mentioned
    THEN {base @@ [competitors_mentioned |-> Some(c)] : c \in extract_competitors(text, domain)}
    ELSE {base @@ [competitors_mentioned |-> None]}

\* the competitors are extracted if check_competitors is set
WithCompetitors(base, text, domain, check_competitors) ==
    IF check_competitors
    THEN {base @@ [competitors_mentioned |-> Some(c)] : c \in extract_competitors(text, domain)}
    ELSE {base @@ [competitors_mentioned |-> None]}

\* the BrandMention records one response text can give (more than one only
\* through the arbitrary choice of extract_competitors)
Mentions(platform, query, text, domain, check_competitors) ==
    WithCompetitors(BaseMention(platform, query, text, domain,
                                Contains(Lower(text), Lower(domain))),
                    text, domain, check_competitors)

\* round(num / den, places) in units of 1/10000, a tie going to the even digit
RoundRatio(num, den, places) ==
    LET p    == IF places = 1 THEN 10 ELSE 100
        q    == (num * p) \div den
        r    == (num * p) % den
        unit == 10000 \div p
    IN  IF 2 * r < den THEN q * unit
        ELSE IF 2 * r > den THEN (q + 1) * unit
        ELSE IF q % 2 = 0 THEN q * unit ELSE (q + 1) * unit

\* ranks: the rank of every mention that has a truthy one (`if m.rank`)
RECURSIVE Ranks(_)
Ranks(mentions) ==
    IF mentions = <<>> THEN <<>>
    ELSE (IF Truthy(Head(mentions).rank) THEN <<Val(Head(mentions).rank)>> ELSE <<>>)
         \o Ranks(Tail(mentions))

RECURSIVE Sum(_)
Sum(list) == IF list = <<>> THEN 0 ELSE Head(list) + Sum(Tail(list))

\* the number of mentions with the given sentiment
WithSentiment(mentions, sentiment) ==
    Cardinality({i \in 1..Len(mentions) : mentions[i].sentiment = Some(sentiment)})

\* the GEOSummary built from the counts (lines 459-465)
SummaryFrom(total_checks, mentions_found, breakdown, ranks) ==
    [total_checks   |-> total_checks,
     mentions_found |-> mentions_found,
     mention_rate   |-> IF total_checks > 0
                        THEN RoundRatio(mentions_found, total_checks, 2) ELSE 0,
     sentiment_breakdown |-> breakdown,
     average_rank   |-> IF ranks # <<>>
                        THEN Some(RoundRatio(Sum(ranks), Len(ranks), 1)) ELSE None]

\* a summary that counts every probe as a mention
GeoSummaryOfProbes(mentions) ==
    SummaryFrom(Len(mentions),
                Len(mentions),
                [positive |-> WithSentiment(mentions, "positive"),
                 negative |-> WithSentiment(mentions, "negative"),
                 neutral  |-> WithSentiment(mentions, "neutral")],
                Ranks(mentions))

\* the summary of analyze_geo (lines 447-466)
GeoSummaryOf(mentions) ==
    SummaryFrom(Len(mentions),
                Cardinality({i \in 1..Len(mentions) : mentions[i].mentioned}),
                [positive |-> WithSentiment(mentions, "positive"),
                 negative |-> WithSentiment(mentions, "negative"),
                 neutral  |-> WithSentiment(mentions, "neutral")],
                Ranks(mentions))

\* f"{rate*100:.0f}" for a rate in units of 1/10000 with two decimals
Percent(rate) == ToString(rate \div 100)

\* f"{x:.1f}" for a value in units of 1/10000 with one decimal
OneDecimal(x) == ToString(x \div 10000) \o "." \o ToString((x % 10000) \div 1000)

\* ', '.join(list)
RECURSIVE Join(_)
Join(list) ==
    IF list = <<>> THEN ""
    ELSE IF Len(list) = 1 THEN Head(list)
    ELSE Head(list) \o ", " \o Join(Tail(list))

MsgLowVisibility(rate) ==
    "Low AI visibility: Your brand is only mentioned in " \o Percent(rate)
    \o "% of queries. Increase content marketing and PR efforts to improve brand recognition."

MsgModerateVisibility(rate) ==
    "Moderate AI visibility: " \o Percent(rate)
    \o "% mention rate. Continue building authority through quality content and backlinks."

MsgStrongVisibility(rate) ==
    "Strong AI visibility: " \o Percent(rate)
    \o "% mention rate. Maintain your content strategy to preserve this advantage."

MsgLowPositive ==
    "Low positive sentiment detected. Focus on improving customer experience and gathering positive reviews."

MsgNegative ==
    "Negative sentiment detected. Address customer concerns and improve your online reputation."

MsgAverageRank(rank) ==
    "Average ranking position is " \o OneDecimal(rank)
    \o ". Work on becoming a top-3 mentioned brand in your category."

MsgKeywords(keywords) ==
    "Target keywords analyzed: " \o Join(keywords)
    \o ". Create comprehensive content around these topics to increase AI mentions."

GeneralGeoRecommendations ==
    <<"Create authoritative, well-structured content that AI models can easily reference.",
      "Build high-quality backlinks from reputable sources to increase training data presence.",
      "Maintain active presence on platforms likely to be in training data (Wikipedia, Reddit, Quora).",
      "Encourage and manage online reviews to influence sentiment in AI responses.",
      "Aim to be featured in 'best of' lists and comparison articles.">>

\* the rules with the ranking message given from an average rank of 3 on
GeoRecommendationsFromThird(summary, sentiment, total_sentiment, keywords) ==
    (IF summary.mention_rate < 3000 THEN <<MsgLowVisibility(summary.mention_rate)>>
     ELSE IF summary.mention_rate < 7000 THEN <<MsgModerateVisibility(summary.mention_rate)>>
     ELSE <<MsgStrongVisibility(summary.mention_rate)>>)
    \o (IF total_sentiment > 0 /\ 2 * sentiment.positive < total_sentiment
        THEN <<MsgLowPositive>> ELSE <<>>)
    \o (IF total_sentiment > 0 /\ 5 * sentiment.negative > total_sentiment
        THEN <<MsgNegative>> ELSE <<>>)
    \o (IF Truthy(summary.average_rank) /\ Val(summary.average_rank) >= 30000
        THEN <<MsgAverageRank(Val(summary.average_rank))>> ELSE <<>>)
    \o (IF keywords # <<>> THEN <<MsgKeywords(keywords)>> ELSE <<>>)
    \o GeneralGeoRecommendations

\* generate_geo_recommendations (the leading pictograms of the messages are
\* left out); 0.3, 0.7, 0.5, 0.2 and 3 are compared in units of 1/10000 or
\* as cross-multiplied integers
GeoRecommendationsFor(summary, sentiment, total_sentiment, keywords) ==
    (IF summary.mention_rate < 3000 THEN <<MsgLowVisibility(summary.mention_rate)>>
     ELSE IF summary.mention_rate < 7000 THEN <<MsgModerateVisibility(summary.mention_rate)>>
     ELSE <<MsgStrongVisibility(summary.mention_rate)>>)
    \o (IF total_sentiment > 0 /\ 2 * sentiment.positive < total_sentiment
        THEN <<MsgLowPositive>> ELSE <<>>)
    \o (IF total_sentiment > 0 /\ 5 * sentiment.negative > total_sentiment
        THEN <<MsgNegative>> ELSE <<>>)
    \o (IF Truthy(summary.average_rank) /\ Val(summary.average_rank) > 30000
        THEN <<MsgAverageRank(Val(summary.average_rank))>> ELSE <<>>)
    \o (IF keywords # <<>> THEN <<MsgKeywords(keywords)>> ELSE <<>>)
    \o GeneralGeoRecommendations

generate_geo_recommendations(response) ==
    GeoRecommendationsFor(response.summary,
                          response.summary.sentiment_breakdown,
                          response.summary.sentiment_breakdown.positive
                          + response.summary.sentiment_breakdown.negative
                          + response.summary.sentiment_breakdown.neutral,
                          response.keywords)

\* what analyze_geo keeps of one probe: the platform asked, the prompt, and
\* what the probe came to
Probe(platform, prompt, answer) ==
    [platform |-> platform, prompt |-> prompt, raised |-> answer.raised,
     result |-> answer.result, net |-> answer.net]

\* the text analyze_geo reads from one probe, as <<text>>, or <<>> when the
\* probe let an exception out or reading the text raises
ProbeText(probe) ==
    IF probe.raised THEN <<>>
    ELSE IF probe.platform = "gemini" THEN GeminiText(probe.result)
    ELSE <<Get(probe.result, "response", "")>>

\* the reply the i-th call to Gemini of one analysis gets: the replies of the
\* plan in turn, over and over
ReplyAt(plan, i) == plan[((i - 1) % Len(plan)) + 1]

\* the probes of the loop of analyze_geo from the i-th query on (lines
\* 410-444), up to the one whose text cannot be read. ctx holds the two
\* credentials and the reply plan
RECURSIVE ProbeLoop(_, _, _)
AfterGemini(queries, i, ctx, gemini) ==
    IF ProbeText(gemini) = <<>> THEN <<gemini>>
    ELSE <<gemini, Probe("chatgpt", queries[i], query_chatgpt(queries[i], ctx.token))>>
         \o ProbeLoop(queries, i + 1, ctx)

ProbeLoop(queries, i, ctx) ==
    IF i > Len(queries) THEN <<>>
    ELSE AfterGemini(queries, i, ctx,
                     Probe("gemini", queries[i],
                           query_gemini(queries[i], ctx.key, ReplyAt(ctx.plan, i))))

\* the loop ended in an exception
LoopRaised(probes) == probes # <<>> /\ ProbeText(probes[Len(probes)]) = <<>>

\* the mention lists the loop can build from its probes
RECURSIVE MentionLists(_, _, _, _)
MentionLists(probes, i, domain, check_competitors) ==
    IF i > Len(probes) THEN {<<>>}
    ELSE {<<m>> \o rest :
            m \in Mentions(probes[i].platform, probes[i].prompt, ProbeText(probes[i])[1],
                           domain, check_competitors),
            rest \in MentionLists(probes, i + 1, domain, check_competitors)}

\* the network calls of the probes, in order
RECURSIVE NetOf(_)
NetOf(probes) == IF probes = <<>> THEN <<>> ELSE Head(probes).net \o NetOf(Tail(probes))

\* the text kept for a query: that of the last of the probes `asked`
LastText(probes, asked) == ProbeText(probes[CHOOSE i \in asked : \A j \in asked : j <= i])[1]

\* all_responses: per platform the text kept for each query
RawResponses(probes) ==
    [platform \in {"gemini", "chatgpt"} |->
        [query \in {probes[i].prompt : i \in 1..Len(probes)} |->
            LastText(probes, {i \in 1..Len(probes) :
                                probes[i].platform = platform /\ probes[i].prompt = query})]]

\* a handler's record with the probes it ran
WithProbes(record, probes) ==
    [f \in DOMAIN record \cup {"probes"} |-> IF f = "probes" THEN probes ELSE record[f]]

\* response.recommendations = generate_geo_recommendations(response)
Recommended(response) ==
    [response EXCEPT !.recommendations = generate_geo_recommendations(response)]

\* the GEOResponse analyze_geo returns (lines 468-481)
GeoResponseOf(domain, keywords, mentions, debug, probes) ==
    Recommended([domain   |-> domain,
                 keywords |-> keywords,
                 mentions |-> mentions,
                 summary  |-> GeoSummaryOf(mentions),
                 recommendations |-> <<>>,
                 raw_responses |-> IF debug # "" THEN Some(RawResponses(probes)) ELSE None])

\* the loop has run: the except clause answers its exception with a 500,
\* otherwise the response is built
GeoResults(inputs, domain, debug, probes) ==
    IF LoopRaised(probes)
    THEN {WithProbes(HttpError(GeoOp, inputs, NetOf(probes), 500,
                               "Error analyzing GEO: list index out of range"),
                     probes)}
    ELSE {WithProbes(Ok(GeoOp, inputs, NetOf(probes),
                        GeoResponseOf(domain, Val(inputs.keywords), mentions, debug, probes)),
                     probes) :
            mentions \in MentionLists(probes, 1, domain, inputs.check_competitors = Some(TRUE))}

GeoFor(inputs, domain, ctx, debug) ==
    GeoResults(inputs, domain, debug,
               ProbeLoop(Queries(domain, Val(inputs.keywords)), 1, ctx))

\* analyze_geo (lines 394-485): the whole body is inside one try block
GeoOutcomes(inputs, key, token, debug, plan) ==
    GeoFor(inputs, clean_domain(inputs.domain),
           [key |-> key, token |-> token, plan |-> plan], debug)

\* an answer of Gemini that names the brand on a numbered line
GeminiAnswer ==
    "Top tools include Moz, Ahrefs and Acme.io.\n1. Moz\n2) acme.io - great value but poor support"

\* the JSON bodies Gemini may answer with
GeminiPayloads ==
    { [candidates |-> Candidates(GeminiAnswer)],
      [candidates |-> Candidates("0. example.com is bad")],
      [candidates |-> <<>>],
      [promptFeedback |-> "blocked"] }

\* the ways a call to Gemini may fail
GeminiFailures == {[kind |-> "status", code |-> 429], [kind |-> "timeout"], [kind |-> "invalid_json"]}

\* what one POST to Gemini may come to
GeminiReplies == {[kind |-> "ok", json |-> d] : d \in GeminiPayloads} \cup GeminiFailures

\* the replies the calls of one analysis get: the same reply every time, or an
\* answer and a timeout in turn
GeminiPlans ==
    {<<r>> : r \in GeminiReplies}
    \cup {<<[kind |-> "ok", json |-> [candidates |-> Candidates(GeminiAnswer)]],
            [kind |-> "timeout"]>>}

GeoDomains == {"example.com", "https://www.Acme.io/", "https://"}

\* the keywords field: missing from the request, or a list of strings
GeoKeywords ==
    {None, Some(<<>>), Some(<<"seo">>), Some(<<"seo", "crm software", "ads", "email">>)}

\* the plans open to an analysis: without a credential no call is made
PlansFor(key) == IF key = "" THEN {<<[kind |-> "none"]>>} ELSE GeminiPlans

\* the POST /geo/analyze endpoint, for a request of the given domains and
\* keywords
AnalyzeGeoFor(domains, keyword_lists) ==
    /\ Idle
    /\ \E domain \in domains, keywords \in keyword_lists,
          check_competitors \in {Some(TRUE), Some(FALSE)},
          plan \in PlansFor(cfg.GEMINI_API_KEY) :
         IF IsNone(keywords)
         THEN call' = WithProbes(ValidationError(GeoOp,
                                    [domain |-> domain, keywords |-> keywords,
                                     check_competitors |-> check_competitors]), <<>>)
         ELSE call' \in GeoOutcomes([domain |-> domain, keywords |-> keywords,
                                     check_competitors |-> check_competitors],
                                    cfg.GEMINI_API_KEY, cfg.APIFY_API_TOKEN,
                                    settings.DEBUG, plan)
    /\ UNCHANGED <<settings, cfg, phase, files, gen>>

AnalyzeGeo == AnalyzeGeoFor(GeoDomains, GeoKeywords)

GeoNext == Startup \/ AnalyzeGeo \/ Respond

\* the credentials of the GEO module configured or not; DEBUG is set only
\* where no credential is
InitGeo ==
    /\ Init
    /\ Unconfigured({"pagespeed_api_key", "bing_api_key"})
    /\ settings.DEBUG # "" => Unconfigured({"gemini_api_key", "apify_api_token"})

\* the GEO endpoint alone, each of its credentials configured or not
SpecGeo == InitGeo /\ [][GeoNext]_vars

-----------------------------------------------------------------------------
(* Properties of the GEO endpoint *)

\* C3: a call with malformed input is rejected with a validation error before
\* any fetch or probe is issued; for the GEO endpoint, a domain that
\* normalizes to the empty string gets no probe and no BrandMention.
C3_EmptyDomainRejected ==
    (call.op = GeoOp /\ clean_domain(call.inputs.domain) = "")
    => /\ call.status = 422
       /\ call.probes = <<>>
       /\ call.net = <<>>
       /\ IsNone(call.body)

\* the probe answered from the template: it made no call, or its call failed
Templated(probe) == probe.net = <<>> \/ probe.net[1].reply.kind # "ok"

\* C4: a GEO probe never raises; with no credential (and for query_chatgpt
\* always) it issues no network call; whenever it made no call or its call
\* failed, the text read from it is generate_simulated_response(prompt), so
\* two such probes of the same prompt give the same text.
C4_ProbesFallBack ==
    call.op = GeoOp
    => /\ \A i \in 1..Len(call.probes) :
            /\ ~call.probes[i].raised
            /\ (call.probes[i].platform = "chatgpt" \/ cfg.GEMINI_API_KEY = "")
               => call.probes[i].net = <<>>
            /\ Templated(call.probes[i])
               => ProbeText(call.probes[i])
                  = <<generate_simulated_response(call.probes[i].prompt)>>
       /\ \A i, j \in 1..Len(call.probes) :
            (/\ Templated(call.probes[i])
             /\ Templated(call.probes[j])
             /\ call.probes[i].prompt = call.probes[j].prompt)
            => ProbeText(call.probes[i]) = ProbeText(call.probes[j])

\* an analysis with the Gemini credential configured in which a call to
\* Gemini timed out, the ChatGPT probe of the same query ran, and the result
\* was returned
C4_Witness ==
    /\ call.op = GeoOp
    /\ call.status = 200
    /\ cfg.GEMINI_API_KEY # ""
    /\ \E i \in 1..Len(call.probes) :
         /\ call.probes[i].platform = "gemini"
         /\ call.probes[i].net # <<>>
         /\ call.probes[i].net[1].reply.kind = "timeout"
         /\ i < Len(call.probes)
         /\ call.probes[i + 1].platform = "chatgpt"
         /\ ProbeText(call.probes[i + 1]) = ProbeText(call.probes[i])

-----------------------------------------------------------------------------
(* search_visibility.py *)

SearchOp == "analyze_search_visibility"

\* a JSON array, told apart from a JSON object (a function on field names)
JsonArray(items) == [json_array |-> items]

IsJsonArray(v) == "json_array" \in DOMAIN v

\* str(e) of the exception a failed provider call raises
ProviderErrorText(reply) ==
    CASE reply.kind = "status"  -> "Client error '" \o ToString(reply.code) \o "'"
      [] reply.kind = "timeout" -> "timed out"
      [] OTHER                  -> "Expecting value: line 1 column 1 (char 0)"

\* the except clause of both fetch functions (lines 101-102, 135-136)
FetchFailed(reply) == [error |-> ProviderErrorText(reply), note |-> "Using simulated data"]

\* the simulated Google payload (lines 72-88); ctr and position in 1/10000
GoogleSimulated(url) ==
    [site_url |-> url,
     status |-> "verified",
     index_status |-> [total_pages |-> 150, indexed_pages |-> 127, not_indexed_pages |-> 23,
                       pending_pages |-> 5, errors |-> 3, warnings |-> 8],
     search_performance |-> [clicks |-> 1250, impressions |-> 25000, ctr |-> 500,
                             position |-> 125000]]

\* the simulated Bing payload (lines 110-123)
BingSimulated(url) ==
    [site_url |-> url,
     status |-> "verified",
     index_status |-> [total_pages |-> 145, indexed_pages |-> 118, not_indexed_pages |-> 27],
     search_performance |-> [clicks |-> 890, impressions |-> 18500, ctr |-> 480,
                             position |-> 142000]]

\* an Optional[str] that Python takes as false: None or the empty string
NoString(o) == IsNone(o) \/ Val(o) = ""

\* the body shared by the two fetch functions: without a credential the
\* simulated payload and no call; with one, a GET whose JSON body is returned
\* as it is; any exception is answered with the error dict
Fetch(url, credential, reply, to, simulated) ==
    IF NoString(credential) THEN [result |-> simulated, net |-> <<>>]
    ELSE [result |-> IF reply.kind = "ok" THEN reply.json ELSE FetchFailed(reply),
          net |-> <<NetCall(to, reply)>>]

fetch_google_index_status(url, access_token, reply) ==
    Fetch(url, access_token, reply, "google", GoogleSimulated(url))

fetch_bing_index_status(url, api_key, reply) ==
    Fetch(url, api_key, reply, "bing", BingSimulated(url))

\* check_indexing_status: simulated, no call; its result is not used
check_indexing_status(url) ==
    [google_indexed |-> TRUE, bing_indexed |-> TRUE, google_results |-> 127,
     bing_results |-> 118, checks_performed |-> <<"google_site_search", "bing_site_search">>]

\* d.get(k): None when the key is missing
GetOptional(d, k) == IF k \in DOMAIN d THEN Some(d[k]) ELSE None

\* IndexStatus(...) from google_data.get("index_status", {}) (lines 243-252)
IndexStatusOf(google_index) ==
    [total_pages       |-> Get(google_index, "total_pages", 0),
     indexed_pages     |-> Get(google_index, "indexed_pages", 0),
     not_indexed_pages |-> Get(google_index, "not_indexed_pages", 0),
     pending_pages     |-> GetOptional(google_index, "pending_pages"),
     errors            |-> GetOptional(google_index, "errors"),
     warnings          |-> GetOptional(google_index, "warnings")]

SearchRow(query, clicks, impressions, ctr, position) ==
    [query |-> query, clicks |-> clicks, impressions |-> impressions, ctr |-> ctr,
     position |-> position]

\* the fixed search performance rows (lines 255-291); ctr and position in
\* units of 1/10000
SearchPerformanceRows ==
    <<SearchRow("example keyword 1", 450, 5000, 900, 85000),
      SearchRow("example keyword 2", 320, 4200, 760, 102000),
      SearchRow("example keyword 3", 180, 3100, 580, 128000),
      SearchRow("example keyword 4", 150, 2800, 540, 153000),
      SearchRow("example keyword 5", 150, 9900, 150, 187000)>>

Sitemap(path, warnings, errors) ==
    [path |-> path, last_submitted |-> Some("2024-01-15T10:30:00Z"),
     last_downloaded |-> Some("2024-01-15T12:45:00Z"), warnings |-> warnings,
     errors |-> errors, is_pending |-> FALSE, is_sitemaps_index |-> FALSE]

\* the fixed sitemap rows (lines 294-313)
SitemapRows == <<Sitemap("/sitemap.xml", 2, 1), Sitemap("/sitemap-posts.xml", 0, 0)>>

\* f"{x:.2f}" for a value in units of 1/10000 with two decimals
TwoDecimals(x) ==
    ToString(x \div 10000) \o "." \o ToString((x % 10000) \div 1000)
    \o ToString((x % 1000) \div 100)

Max(a, b) == IF a > b THEN a ELSE b

MsgIndexedRatio(index_status) ==
    "Only "
    \o OneDecimal(RoundRatio(index_status.indexed_pages * 100,
                             Max(index_status.total_pages, 1), 1))
    \o "% of your pages are indexed. Submit a sitemap to Google Search Console and check for crawl errors."

MsgIndexErrors(n) ==
    "Found " \o ToString(n)
    \o " indexing errors. Fix these in Google Search Console to improve visibility."

MsgIndexWarnings(n) ==
    "Found " \o ToString(n)
    \o " indexing warnings. Review and address these to ensure proper indexing."

MsgCtr(total_clicks, total_impressions) ==
    "Your average CTR is "
    \o TwoDecimals(RoundRatio(total_clicks * 100, Max(total_impressions, 1), 2))
    \o "%. Improve meta titles and descriptions to increase click-through rates."

MsgPosition(position_sum, rows) ==
    "Average position is " \o OneDecimal(RoundRatio(position_sum, Max(rows, 1) * 10000, 1))
    \o ". Focus on SEO improvements to reach the first page (position 1-10)."

MsgNoSitemaps ==
    "No sitemaps detected. Create and submit XML sitemaps to Google and Bing for better indexing."

MsgConnect ==
    "Connect your Google Search Console and Bing Webmaster Tools accounts for detailed insights."

MsgSearchGood == "Your search visibility looks good! Continue monitoring and optimizing."

RECURSIVE SumOf(_, _)
SumOf(rows, field) ==
    IF rows = <<>> THEN 0 ELSE Head(rows)[field] + SumOf(Tail(rows), field)

\* the index status rules: the ratio is compared with 0.8 as 5 x indexed
\* against 4 x total
IndexRecommendations(index_status) ==
    (IF 5 * index_status.indexed_pages < 4 * Max(index_status.total_pages, 1)
     THEN <<MsgIndexedRatio(index_status)>> ELSE <<>>)
    \o (IF Truthy(index_status.errors) /\ Val(index_status.errors) > 0
        THEN <<MsgIndexErrors(Val(index_status.errors))>> ELSE <<>>)
    \o (IF Truthy(index_status.warnings) /\ Val(index_status.warnings) > 0
        THEN <<MsgIndexWarnings(Val(index_status.warnings))>> ELSE <<>>)

\* the search performance rules: avg_ctr < 2 as 50 x clicks < impressions,
\* avg_position > 10 in units of 1/10000
PerformanceRecommendations(total_clicks, total_impressions, position_sum, rows) ==
    (IF 50 * total_clicks < Max(total_impressions, 1)
     THEN <<MsgCtr(total_clicks, total_impressions)>> ELSE <<>>)
    \o (IF position_sum > 100000 * Max(rows, 1)
        THEN <<MsgPosition(position_sum, rows)>> ELSE <<>>)

\* a dict Python takes as false: None or empty
NoData(o) == IsNone(o) \/ IsEmptyDict(Val(o))

OrGood(recommendations) ==
    IF recommendations = <<>> THEN <<MsgSearchGood>> ELSE recommendations

\* generate_search_recommendations
generate_search_recommendations(data) ==
    OrGood((IF ~IsNone(data.index_status) THEN IndexRecommendations(Val(data.index_status))
            ELSE <<>>)
           \o (IF data.search_performance # <<>>
               THEN PerformanceRecommendations(SumOf(data.search_performance, "clicks"),
                                               SumOf(data.search_performance, "impressions"),
                                               SumOf(data.search_performance, "position"),
                                               Len(data.search_performance))
               ELSE <<>>)
           \o (IF data.sitemaps = <<>> THEN <<MsgNoSitemaps>> ELSE <<>>)
           \o (IF NoData(data.google_data) /\ NoData(data.bing_data) THEN <<MsgConnect>>
               ELSE <<>>))

\* response.recommendations = generate_search_recommendations(response)
SearchRecommended(response) ==
    [response EXCEPT !.recommendations = generate_search_recommendations(response)]

\* the SearchVisibilityResponse of lines 316-324
SearchResponseOf(url, google_data, bing_data) ==
    SearchRecommended(
        [url |-> url,
         google_data |-> Some(google_data),
         bing_data |-> Some(bing_data),
         index_status |-> Some(IndexStatusOf(Get(google_data, "index_status", <<>>))),
         search_performance |-> SearchPerformanceRows,
         sitemaps |-> SitemapRows,
         recommendations |-> <<>>])

\* the try block once both fetches returned (lines 238-329): a JSON array
\* for google_data has no .get, one for bing_data fails the response model;
\* the except clause turns either into a 500
SearchOutcome(inputs, google, bing) ==
    IF IsJsonArray(google.result)
    THEN HttpError(SearchOp, inputs, google.net \o bing.net, 500,
                   "Error analyzing search visibility: 'list' object has no attribute 'get'")
    ELSE IF IsJsonArray(bing.result)
    THEN HttpError(SearchOp, inputs, google.net \o bing.net, 500,
                   "Error analyzing search visibility: validation error for SearchVisibilityResponse")
    ELSE Ok(SearchOp, inputs, google.net \o bing.net,
            SearchResponseOf(inputs.url, google.result, bing.result))

\* the JSON bodies the Search Console may answer with
GooglePayloads ==
    { [index_status |-> [total_pages |-> 200, indexed_pages |-> 100,
                         not_indexed_pages |-> 100, errors |-> 4]],
      [siteEntry |-> <<[siteUrl |-> "https://example.com/"]>>],
      <<>>,
      JsonArray(<<>>) }

\* the JSON bodies Bing may answer with
BingPayloads == { [d |-> <<>>], <<>>, JsonArray(<<>>) }

\* the ways a call to a provider may fail
ProviderFailures == {[kind |-> "status", code |-> 401], [kind |-> "timeout"]}

GoogleReplies == {[kind |-> "ok", json |-> d] : d \in GooglePayloads} \cup ProviderFailures

BingReplies == {[kind |-> "ok", json |-> d] : d \in BingPayloads} \cup ProviderFailures

\* a credential field of the request: missing, empty or given
Credentials == {None, Some(""), Some("token")}

\* the replies open to a fetch: without a credential no call is made
RepliesFor(credential, replies) ==
    IF NoString(credential) THEN {[kind |-> "none"]} ELSE replies

\* the handler from the request to its response: a 422 when the request
\* model cannot be built, the outcome of the two fetches otherwise
SearchCall(inputs, google_reply, bing_reply) ==
    IF ~IsHttpUrl(inputs.url)
    THEN ValidationError(SearchOp, inputs)
    ELSE SearchOutcome(inputs,
                       fetch_google_index_status(inputs.url, inputs.access_token,
                                                 google_reply),
                       fetch_bing_index_status(inputs.url, inputs.bing_api_key, bing_reply))

\* the endpoint, were it to keep the Bing key of a request in the module
AnalyzeSearchVisibilityKeepingKey ==
    /\ Idle
    /\ \E url \in Urls, access_token \in Credentials, bing_api_key \in Credentials :
         \E google_reply \in RepliesFor(access_token, GoogleReplies),
            bing_reply \in RepliesFor(bing_api_key, BingReplies) :
            /\ call' = SearchCall([url |-> url, access_token |-> access_token,
                                   bing_api_key |-> bing_api_key],
                                  google_reply, bing_reply)
            /\ cfg' = [cfg EXCEPT !.BING_API_KEY =
                                    IF NoString(bing_api_key) THEN @ ELSE Val(bing_api_key)]
    /\ UNCHANGED <<settings, phase, files, gen>>

\* the POST /search-visibility/analyze endpoint
AnalyzeSearchVisibility ==
    /\ Idle
    /\ \E url \in Urls, access_token \in Credentials, bing_api_key \in Credentials :
         \E google_reply \in RepliesFor(access_token, GoogleReplies),
            bing_reply \in RepliesFor(bing_api_key, BingReplies) :
            call' = SearchCall([url |-> url, access_token |-> access_token,
                                bing_api_key |-> bing_api_key],
                               google_reply, bing_reply)
    /\ UNCHANGED <<settings, cfg, phase, files, gen>>

SearchNext == Startup \/ AnalyzeSearchVisibility \/ Respond

\* nothing the search module reads is configured at startup: BING_API_KEY is
\* set on the module and never read
InitSearch ==
    Init /\ Unconfigured({"pagespeed_api_key", "gemini_api_key", "apify_api_token", "DEBUG"})

\* the search visibility endpoint alone
SpecSearch == InitSearch /\ [][SearchNext]_vars

-----------------------------------------------------------------------------
(* Properties of the search visibility endpoint *)

\* the call the handler made to the provider failed
ProviderFailed(to) ==
    \E i \in 1..Len(call.net) : call.net[i].to = to /\ call.net[i].reply.kind # "ok"

\* C5: when a provider credential is supplied and the live call fails, the
\* failure is either downgraded to the synthetic provider payload, so that
\* the index status carries the synthetic counts of the no-credential path,
\* or re-raised as a wrapped server error; it never gives a success result
\* whose index status is built from missing data.
C5_FailureDowngraded ==
    (call.op = SearchOp /\ call.status # 422)
    => /\ ProviderFailed("google")
          => \/ call.status = 500
             \/ /\ call.status = 200
                /\ Val(call.body).google_data = Some(GoogleSimulated(call.inputs.url))
                /\ Val(call.body).index_status
                   = Some(IndexStatusOf(GoogleSimulated(call.inputs.url).index_status))
       /\ ProviderFailed("bing")
          => \/ call.status = 500
             \/ /\ call.status = 200
                /\ Val(call.body).bing_data = Some(BingSimulated(call.inputs.url))

-----------------------------------------------------------------------------
(* traffic_estimation.py: every figure is sampled with the random module;   *)
(* a draw is the record of the values one request samples                   *)

TrafficOp == "estimate_traffic"

\* str.replace(p, ""): every occurrence of p is removed
RECURSIVE Remove(_, _)
Remove(s, p) ==
    IF Find(s, p) = 0 THEN s
    ELSE Take(s, Find(s, p) - 1) \o Remove(Drop(s, Find(s, p) - 1 + Len(p)), p)

\* the domain key of estimate_traffic (line 267)
DomainKey(url_str) ==
    Head(SplitOn(Remove(Remove(url_str, "https://"), "http://"), "/"))

\* twice base_traffic after the adjustments of lines 80-83: times 2 for a
\* domain that contains ".gov" or ".edu", times 1.5 (which makes it a float)
\* for a domain of fewer than 10 characters
TwiceTraffic(domain, base) ==
    base * (IF Contains(domain, ".gov") \/ Contains(domain, ".edu") THEN 2 ELSE 1)
         * (IF Len(domain) < 10 THEN 3 ELSE 2)

\* int(base_traffic * 0.7) and int(base_traffic * 1.3), from twice the traffic
IntOfTenths(twice, tenths) == (twice * tenths) \div 20

\* the TrafficMetrics record (lines 89-96)
TrafficMetricsOf(twice, draw) ==
    [monthly_visits     |-> twice \div 2,
     monthly_visits_min |-> IntOfTenths(twice, 7),
     monthly_visits_max |-> IntOfTenths(twice, 13),
     avg_visit_duration |-> Some(draw.avg_visit_duration),
     pages_per_visit    |-> Some(draw.pages_per_visit),
     bounce_rate        |-> Some(draw.bounce_rate)]

\* pydantic (v2, see the pydantic_settings import of main.py) refuses a float
\* with a fractional part for the int field monthly_visits
MsgFractionalVisits ==
    "1 validation error for TrafficMetrics monthly_visits Input should be a valid integer, got a number with a fractional part"

\* estimate_traffic_metrics: the record, or the validation error raised by
\* the TrafficMetrics constructor
MetricsFrom(twice, draw) ==
    IF twice % 2 = 1 THEN [raised |-> TRUE, error |-> MsgFractionalVisits]
    ELSE [raised |-> FALSE, result |-> TrafficMetricsOf(twice, draw)]

estimate_traffic_metrics(domain, draw) == MetricsFrom(TwiceTraffic(domain, draw.base), draw)

SourceNames ==
    <<"Organic Search", "Direct", "Referral", "Social Media", "Paid Search", "Email">>

\* one TrafficSource (lines 115-119): the share of the weight in the total,
\* as a percentage rounded to one decimal, and the visits it stands for
\* (the share is rounded on the exact quotient; on an exact tie the float
\* of the source may fall to either side)
TrafficSourceOf(name, weight, total, total_visits) ==
    [source |-> name,
     percentage |-> RoundRatio(weight * 100, total, 1),
     estimated_visits |-> (total_visits * weight) \div total]

\* estimate_traffic_sources: the six sampled weights (in hundredths),
\* normalized by their sum
estimate_traffic_sources(total_visits, weights) ==
    [i \in 1..Len(SourceNames) |->
        TrafficSourceOf(SourceNames[i], weights[i], Sum(weights), total_visits)]

\* the fixed country table (lines 126-137), the share in hundredths
Countries ==
    <<<<"United States", "US", 35>>, <<"United Kingdom", "GB", 12>>,
      <<"Canada", "CA", 8>>, <<"Germany", "DE", 7>>, <<"France", "FR", 6>>,
      <<"India", "IN", 5>>, <<"Australia", "AU", 5>>, <<"Brazil", "BR", 4>>,
      <<"Japan", "JP", 4>>, <<"Other", "OT", 14>>>>

CountrySourceOf(country, total_visits) ==
    [country |-> country[1], country_code |-> country[2],
     percentage |-> country[3] * 10000,
     estimated_visits |-> (total_visits * country[3]) \div 100]

estimate_top_countries(total_visits) ==
    [i \in 1..Len(Countries) |-> CountrySourceOf(Countries[i], total_visits)]

\* the keyword table (lines 155-164): the text around the domain name, and
\* the ends of the ranges position and volume are sampled from
KeywordRow(prefix, suffix, positions, volumes) ==
    [prefix |-> prefix, suffix |-> suffix, positions |-> positions, volumes |-> volumes]

KeywordRows ==
    <<KeywordRow("", "", <<1, 3>>, <<5000, 50000>>),
      KeywordRow("", " login", <<1, 5>>, <<2000, 20000>>),
      KeywordRow("", " reviews", <<2, 8>>, <<1000, 15000>>),
      KeywordRow("", " pricing", <<2, 10>>, <<800, 12000>>),
      KeywordRow("best ", " alternative", <<3, 15>>, <<500, 8000>>),
      KeywordRow("", " vs competitor", <<4, 20>>, <<300, 6000>>),
      KeywordRow("", " tutorial", <<3, 12>>, <<400, 7000>>),
      KeywordRow("", " api", <<5, 25>>, <<200, 5000>>)>>

\* one TopKeyword (lines 167-172); the draw picks an end of each range
TopKeywordOf(row, domain_name, draw) ==
    [keyword  |-> row.prefix \o domain_name \o row.suffix,
     position |-> Some(row.positions[draw.range_end]),
     volume   |-> Some(row.volumes[draw.range_end]),
     cpc      |-> Some(draw.cpc)]

KeywordsNamed(domain_name, draw) ==
    [i \in 1..Len(KeywordRows) |-> TopKeywordOf(KeywordRows[i], domain_name, draw)]

\* estimate_top_keywords: domain.split('.')[0] names the keywords
estimate_top_keywords(domain, draw) == KeywordsNamed(Head(SplitOn(domain, ".")), draw)

MsgLowTraffic ==
    "Low traffic detected. Focus on content marketing and SEO to increase organic visibility."

MsgStartBlog == "Consider starting a blog with valuable content related to your industry."

MsgModerateTraffic ==
    "Moderate traffic level. Optimize conversion rates and expand your keyword targeting."

MsgStrongTraffic ==
    "Strong traffic volume! Focus on retention and maximizing conversion rates."

MsgOrganic(text) ==
    "Organic search is only " \o text
    \o "% of traffic. Invest in SEO to improve organic visibility."

MsgDirect(text) ==
    "Direct traffic is " \o text \o "%. Build brand awareness to increase direct visits."

MsgSocial ==
    "Low social media traffic. Develop a social media strategy to drive more visits."

MsgBounce(rate) ==
    "High bounce rate (" \o Percent(rate)
    \o "%). Improve page load speed and content relevance."

MsgPagesPerVisit ==
    "Low pages per visit. Improve internal linking and add related content suggestions."

GeneralTrafficRecommendations ==
    <<"Focus on high-volume, low-competition keywords for quick wins.",
      "Implement email marketing to increase returning visitors.",
      "Build quality backlinks to improve domain authority and organic traffic.",
      "Ensure mobile optimization as mobile traffic continues to grow.">>

\* next((s.percentage for s in sources if s.source == name), 0): None stands
\* for the default, the int 0
ShareAmong(sources, hits) ==
    IF hits = {} THEN None ELSE Some(sources[Min(hits)].percentage)

Share(sources, name) ==
    ShareAmong(sources, {i \in 1..Len(sources) : sources[i].source = name})

\* share < limit, the default 0 being below every limit
ShareBelow(share, limit) == IsNone(share) \/ Val(share) < limit

\* f"{share}": str of the float, or of the int 0
ShareText(share) == IF IsNone(share) THEN "0" ELSE OneDecimal(Val(share))

VolumeRecommendations(monthly_visits) ==
    IF monthly_visits < 50000 THEN <<MsgLowTraffic, MsgStartBlog>>
    ELSE IF monthly_visits < 200000 THEN <<MsgModerateTraffic>>
    ELSE <<MsgStrongTraffic>>

SourceRecommendations(organic, direct, social) ==
    (IF ShareBelow(organic, 400000) THEN <<MsgOrganic(ShareText(organic))>> ELSE <<>>)
    \o (IF ShareBelow(direct, 200000) THEN <<MsgDirect(ShareText(direct))>> ELSE <<>>)
    \o (IF ShareBelow(social, 50000) THEN <<MsgSocial>> ELSE <<>>)

EngagementRecommendations(bounce_rate, pages_per_visit) ==
    (IF Truthy(bounce_rate) /\ Val(bounce_rate) > 6000
     THEN <<MsgBounce(Val(bounce_rate))>> ELSE <<>>)
    \o (IF Truthy(pages_per_visit) /\ Val(pages_per_visit) < 20000
        THEN <<MsgPagesPerVisit>> ELSE <<>>)

\* generate_traffic_recommendations (lines 192-257)
generate_traffic_recommendations(response) ==
    VolumeRecommendations(response.metrics.monthly_visits)
    \o SourceRecommendations(Share(response.traffic_sources, "Organic Search"),
                             Share(response.traffic_sources, "Direct"),
                             Share(response.traffic_sources, "Social Media"))
    \o EngagementRecommendations(response.metrics.bounce_rate,
                                 response.metrics.pages_per_visit)
    \o GeneralTrafficRecommendations

TrafficDisclaimer ==
    "These figures are estimates based on available data and algorithms. They should not be considered as exact figures. Use official analytics tools for accurate measurements."

\* an Optional[bool] flag of the request that Python takes as true
FlagSet(flag) == flag = Some(TRUE)

\* the TrafficResponse before its recommendations (lines 282-292)
TrafficResponseOf(url_str, metrics, traffic_sources, top_countries, top_keywords, draw) ==
    [url |-> url_str,
     disclaimer |-> TrafficDisclaimer,
     metrics |-> metrics,
     traffic_sources |-> traffic_sources,
     top_countries |-> top_countries,
     top_keywords |-> top_keywords,
     growth_trend |-> Some(draw.growth_trend),
     confidence_level |-> draw.confidence_level,
     recommendations |-> <<>>]

\* response.recommendations = generate_traffic_recommendations(response)
TrafficRecommended(response) ==
    [response EXCEPT !.recommendations = generate_traffic_recommendations(response)]

\* estimate_traffic once the metrics are there (lines 272-297)
TrafficEstimate(inputs, domain, metrics, draw) ==
    TrafficRecommended(
        TrafficResponseOf(
            inputs.url, metrics,
            IF FlagSet(inputs.include_sources)
            THEN estimate_traffic_sources(metrics.monthly_visits, draw.weights) ELSE <<>>,
            IF FlagSet(inputs.include_countries)
            THEN estimate_top_countries(metrics.monthly_visits) ELSE <<>>,
            IF FlagSet(inputs.include_keywords)
            THEN estimate_top_keywords(domain, draw) ELSE <<>>,
            draw))

\* estimate_traffic: any exception becomes a 500 (lines 299-303)
TrafficAfterMetrics(inputs, domain, metrics, draw) ==
    IF metrics.raised
    THEN HttpError(TrafficOp, inputs, <<>>, 500, "Error estimating traffic: " \o metrics.error)
    ELSE Ok(TrafficOp, inputs, <<>>, TrafficEstimate(inputs, domain, metrics.result, draw))

TrafficFor(inputs, domain, draw) ==
    TrafficAfterMetrics(inputs, domain, estimate_traffic_metrics(domain, draw), draw)

TrafficOutcome(inputs, draw) == TrafficFor(inputs, DomainKey(inputs.url), draw)

\* one draw of the random module: base_traffic, the six source weights in
\* hundredths, the visit figures, the end of the keyword ranges, the cost per
\* click, the growth trend and the confidence level
Draw(base, weights, avg_visit_duration, pages_per_visit, bounce_rate, range_end, cpc,
     growth_trend, confidence_level) ==
    [base |-> base, weights |-> weights, avg_visit_duration |-> avg_visit_duration,
     pages_per_visit |-> pages_per_visit, bounce_rate |-> bounce_rate,
     range_end |-> range_end, cpc |-> cpc, growth_trend |-> growth_trend,
     confidence_level |-> confidence_level]

TrafficDraws ==
    {Draw(10000, <<35, 35, 20, 15, 15, 7>>, "2m 0s", 15000, 7500, 1, 5000,
          "increasing", "high"),
     Draw(10001, <<60, 15, 5, 3, 0, 1>>, "8m 59s", 55000, 3500, 2, 150000,
          "stable", "medium"),
     Draw(150000, <<50, 25, 10, 8, 5, 2>>, "4m 30s", 31400, 6000, 1, 12500,
          "slight_decrease", "low"),
     Draw(500000, <<35, 15, 20, 15, 15, 8>>, "5m 7s", 20000, 6100, 2, 9900,
          "fluctuating", "medium")}

\* an Optional[bool] field of the request
Flags == {Some(TRUE), Some(FALSE), None}

\* the POST /traffic/estimate endpoint
EstimateTraffic ==
    /\ Idle
    /\ \E url \in Urls, include_sources \in Flags, include_countries \in Flags,
          include_keywords \in {Some(TRUE), Some(FALSE)}, draw \in TrafficDraws :
         IF ~IsHttpUrl(url)
         THEN call' = ValidationError(TrafficOp,
                         [url |-> url, include_sources |-> include_sources,
                          include_countries |-> include_countries,
                          include_keywords |-> include_keywords])
         ELSE call' = TrafficOutcome([url |-> url, include_sources |-> include_sources,
                                      include_countries |-> include_countries,
                                      include_keywords |-> include_keywords], draw)
    /\ UNCHANGED <<settings, cfg, phase, files, gen>>

TrafficNext == Startup \/ EstimateTraffic \/ Respond

\* the traffic module reads no credential
InitTraffic ==
    Init /\ Unconfigured({"pagespeed_api_key", "gemini_api_key", "apify_api_token",
                          "bing_api_key", "DEBUG"})

\* the traffic estimation endpoint alone
SpecTraffic == InitTraffic /\ [][TrafficNext]_vars

-----------------------------------------------------------------------------
(* report.py: create_pdf_report. The document is the list of flowables      *)
(* handed to doc.build; styles, column widths and colours are left out, and *)
(* the pictograms of the cells are written as words.                        *)

ReportOp == "generate_report"

\* an Optional[Dict] payload that Python takes as true: given and not empty
HasPayload(data) == ~IsNone(data) /\ DOMAIN Val(data) # {}

\* d.get(k) for a field whose value may be null: None when the key is
\* missing, as when the value is null
GetNullable(d, k) == IF k \in DOMAIN d THEN d[k] ELSE None

\* name in request.include_sections
Included(include_sections, name) ==
    \E i \in 1..Len(include_sections) : include_sections[i] = name

Paragraph(text, style) == [kind |-> style, text |-> text, rows |-> <<>>]

Spacer == [kind |-> "spacer", text |-> "", rows |-> <<>>]

PageBreak == [kind |-> "page_break", text |-> "", rows |-> <<>>]

Table(rows) == [kind |-> "table", text |-> "", rows |-> rows]

UpperChar(c) ==
    CASE c = "a" -> "A" [] c = "b" -> "B" [] c = "c" -> "C" [] c = "d" -> "D"
      [] c = "e" -> "E" [] c = "f" -> "F" [] c = "g" -> "G" [] c = "h" -> "H"
      [] c = "i" -> "I" [] c = "j" -> "J" [] c = "k" -> "K" [] c = "l" -> "L"
      [] c = "m" -> "M" [] c = "n" -> "N" [] c = "o" -> "O" [] c = "p" -> "P"
      [] c = "q" -> "Q" [] c = "r" -> "R" [] c = "s" -> "S" [] c = "t" -> "T"
      [] c = "u" -> "U" [] c = "v" -> "V" [] c = "w" -> "W" [] c = "x" -> "X"
      [] c = "y" -> "Y" [] c = "z" -> "Z" [] OTHER -> c

\* str.capitalize()
Capitalize(s) == IF s = "" THEN "" ELSE UpperChar(Char(s, 1)) \o Lower(Drop(s, 1))

\* the three digits of a group below 1000
ThreeDigits(n) ==
    ToString(n \div 100) \o ToString((n \div 10) % 10) \o ToString(n % 10)

\* f"{n:,}" for an int
RECURSIVE Commas(_)
Commas(n) ==
    IF n < 1000 THEN ToString(n)
    ELSE Commas(n \div 1000) \o "," \o ThreeDigits(n % 1000)

\* the four decimals of a fraction in units of 1/10000
FourDigits(f) == ToString(f \div 1000) \o ThreeDigits(f % 1000)

\* str(x) for a float in units of 1/10000: the decimals without trailing
\* zeros, one at least
FloatStr(x) ==
    ToString(x \div 10000) \o "."
    \o (IF x % 10000 = 0 THEN "0" ELSE RStripChar(FourDigits(x % 10000), "0"))

\* the first entries a list subsection shows: the [:5] slices
TopEntries == 5

\* the bullet paragraphs of a list of recommendations
BulletItems(list) == [i \in 1..Len(list) |-> Paragraph("* " \o list[i], "body")]

\* a recommendations subsection: the first five, if there are any
Bullets(title, data) ==
    IF "recommendations" \in DOMAIN data /\ data.recommendations # <<>>
    THEN <<Paragraph(title, "subheading")>>
         \o BulletItems(FirstN(data.recommendations, TopEntries))
         \o <<Spacer>>
    ELSE <<>>

\* the title page (lines 96-108)
TitlePage(url, company_name, now) ==
    <<Spacer, Paragraph("SEO Audit Report", "title"), Spacer,
      Paragraph("Website: " \o url, "subtitle"), Spacer,
      Paragraph("Generated: " \o now.text, "subtitle")>>
    \o (IF NoString(company_name) THEN <<>>
        ELSE <<Spacer, Paragraph("Prepared for: " \o Val(company_name), "subtitle")>>)
    \o <<PageBreak>>

\* the executive summary (lines 110-120); the text without its line breaks
ExecutiveSummary(url) ==
    <<Paragraph("Executive Summary", "heading"), Spacer,
      Paragraph("This comprehensive SEO audit report provides detailed analysis of <b>"
                \o url
                \o "</b>. The audit covers four key areas: SEO Health, Search Visibility, Generative Engine Optimization (GEO), and Traffic Estimation. Each section includes actionable recommendations to improve your online presence.",
                "body"),
      Spacer>>

\* the status of a score in the key-metrics table
StatusOf(score) ==
    IF score >= 90 THEN "Good" ELSE IF score >= 50 THEN "Needs Improvement" ELSE "Poor"

\* the row of one score (lines 128-141): there when the key is in the dict;
\* `score >= 90` is evaluated on the value whatever it is
StatsRow(label, seo, key) ==
    IF key \in DOMAIN seo
    THEN <<<<label, ToString(Val(seo[key])) \o "/100", StatusOf(Val(seo[key]))>>>>
    ELSE <<>>

\* the visits row (lines 143-145)
VisitsRow(traffic_data) ==
    IF HasPayload(traffic_data) /\ "metrics" \in DOMAIN Val(traffic_data)
    THEN <<<<"Est. Monthly Visits",
             Commas(Get(Val(traffic_data).metrics, "monthly_visits", 0)), "Estimated">>>>
    ELSE <<>>

\* the key-metrics table of the executive summary (lines 122-160)
KeyMetrics(seo_data, traffic_data) ==
    IF HasPayload(seo_data)
    THEN <<Paragraph("Key Metrics Overview", "subheading"),
           Table(<<<<"Metric", "Score", "Status">>>>
                 \o StatsRow("Performance", Val(seo_data), "performance_score")
                 \o StatsRow("SEO", Val(seo_data), "seo_score")
                 \o StatsRow("Accessibility", Val(seo_data), "accessibility_score")
                 \o VisitsRow(traffic_data)),
           Spacer>>
    ELSE <<>>

\* a score of the key-metrics table that is there as a key with a null
\* value: `None >= 90` raises a TypeError
NullScore(seo) ==
    \E key \in {"performance_score", "seo_score", "accessibility_score"} :
        key \in DOMAIN seo /\ IsNone(seo[key])

MsgCompareNone == "'>=' not supported between instances of 'NoneType' and 'int'"

\* the rating of a score in the SEO section
Rating(score) ==
    IF score >= 90 THEN "Excellent"
    ELSE IF score >= 70 THEN "Good"
    ELSE IF score >= 50 THEN "Needs Work"
    ELSE "Poor"

\* one row of the scores table: left out when the score is None
ScoreRow(category, score) ==
    IF IsNone(score) THEN <<>>
    ELSE <<<<category, ToString(Val(score)) \o "/100", Rating(Val(score))>>>>

\* the status cell of a vital
StatusIcon(status) ==
    IF status = Some("good") THEN "ok"
    ELSE IF status = Some("needs_improvement") THEN "warning"
    ELSE "poor"

\* one row of the vitals table: left out when the value is None
VitalRow(metric, value, target, status) ==
    IF IsNone(value) THEN <<>>
    ELSE <<<<metric, FloatStr(Val(value)), target, StatusIcon(status)>>>>

\* the Core Web Vitals subsection (lines 203-235)
VitalsRows(cwv) ==
    VitalRow("LCP (Largest Contentful Paint)", GetNullable(cwv, "lcp"), "< 2.5s",
             GetNullable(cwv, "lcp_category"))
    \o VitalRow("FID (First Input Delay)", GetNullable(cwv, "fid"), "< 100ms",
                GetNullable(cwv, "fid_category"))
    \o VitalRow("CLS (Cumulative Layout Shift)", GetNullable(cwv, "cls"), "< 0.1",
                GetNullable(cwv, "cls_category"))
    \o VitalRow("FCP (First Contentful Paint)", GetNullable(cwv, "fcp"), "< 1.8s",
                GetNullable(cwv, "fcp_category"))
    \o VitalRow("TTFB (Time to First Byte)", GetNullable(cwv, "ttfb"), "< 0.8s",
                GetNullable(cwv, "ttfb_category"))

VitalsTable(seo) ==
    IF "core_web_vitals" \in DOMAIN seo
    THEN <<Paragraph("Core Web Vitals", "subheading"),
           Table(<<<<"Metric", "Value", "Target", "Status">>>>
                 \o VitalsRows(seo.core_web_vitals)),
           Spacer>>
    ELSE <<>>

\* the SEO health section (lines 167-244)
SeoSection(seo) ==
    <<Paragraph("1. SEO Health Analysis", "heading"), Spacer,
      Paragraph("Performance Scores", "subheading"),
      Table(<<<<"Category", "Score", "Rating">>>>
            \o ScoreRow("Performance", GetNullable(seo, "performance_score"))
            \o ScoreRow("SEO", GetNullable(seo, "seo_score"))
            \o ScoreRow("Accessibility", GetNullable(seo, "accessibility_score"))
            \o ScoreRow("Best Practices", GetNullable(seo, "best_practices_score"))),
      Spacer>>
    \o VitalsTable(seo)
    \o Bullets("SEO Recommendations", seo)
    \o <<PageBreak>>

\* str(index.get(k, "N/A")) for a page count
CountText(index, k) == IF k \in DOMAIN index THEN ToString(index[k]) ELSE "N/A"

\* a row of the index table that is there only for a truthy count
CountRow(label, count) ==
    IF Truthy(count) THEN <<<<label, ToString(Val(count))>>>> ELSE <<>>

\* the rows of the index table (lines 256-268)
IndexRows(index) ==
    <<<<"Metric", "Value">>,
      <<"Total Pages", CountText(index, "total_pages")>>,
      <<"Indexed Pages", CountText(index, "indexed_pages")>>,
      <<"Not Indexed", CountText(index, "not_indexed_pages")>>>>
    \o CountRow("Pending", GetNullable(index, "pending_pages"))
    \o CountRow("Errors", GetNullable(index, "errors"))
    \o CountRow("Warnings", GetNullable(index, "warnings"))

\* the index status subsection (lines 253-282): index_status is a dict, or
\* null
IndexTable(search) ==
    IF HasPayload(GetNullable(search, "index_status"))
    THEN <<Paragraph("Index Status", "subheading"),
           Table(IndexRows(Val(search.index_status))), Spacer>>
    ELSE <<>>

\* one row of the search queries table (lines 289-295)
QueryRow(perf) ==
    <<Get(perf, "query", ""), ToString(Get(perf, "clicks", 0)),
      ToString(Get(perf, "impressions", 0)),
      TwoDecimals(Get(perf, "ctr", 0) * 100) \o "%",
      OneDecimal(Get(perf, "position", 0))>>

QueryRows(rows) == [i \in 1..Len(rows) |-> QueryRow(rows[i])]

\* the search queries subsection (lines 284-309): the first five rows
QueryTable(search) ==
    IF "search_performance" \in DOMAIN search /\ search.search_performance # <<>>
    THEN <<Paragraph("Top Search Queries", "subheading"),
           Table(<<<<"Query", "Clicks", "Impressions", "CTR", "Position">>>>
                 \o QueryRows(FirstN(search.search_performance, TopEntries))),
           Spacer>>
    ELSE <<>>

\* the search visibility section (lines 246-319)
SearchSection(search) ==
    <<Paragraph("2. Search Visibility Analysis", "heading"), Spacer>>
    \o IndexTable(search)
    \o QueryTable(search)
    \o Bullets("Search Visibility Recommendations", search)
    \o <<PageBreak>>

\* summary.get('average_rank', 'N/A') in an f-string
RankText(summary) ==
    IF "average_rank" \notin DOMAIN summary THEN "N/A"
    ELSE IF IsNone(summary.average_rank) THEN "None"
    ELSE FloatStr(Val(summary.average_rank))

\* the summary paragraph of the GEO section (lines 332-338), without its
\* line breaks
GeoSummaryText(summary) ==
    "<b>Total Checks:</b> " \o ToString(Get(summary, "total_checks", 0)) \o "<br/>"
    \o "<b>Mentions Found:</b> " \o ToString(Get(summary, "mentions_found", 0)) \o "<br/>"
    \o "<b>Mention Rate:</b> " \o OneDecimal(Get(summary, "mention_rate", 0) * 100)
    \o "%<br/>"
    \o "<b>Average Rank:</b> " \o RankText(summary) \o "<br/>"

\* one line of the sentiment analysis, for a count above zero
SentimentLine(sentiment, sent_type) ==
    IF sent_type \in DOMAIN sentiment /\ sentiment[sent_type] > 0
    THEN <<Paragraph(Capitalize(sent_type) \o ": " \o ToString(sentiment[sent_type]),
                     "body")>>
    ELSE <<>>

\* the sentiment analysis (lines 342-350), the keys in the order the GEO
\* summary has them
SentimentLines(summary) ==
    IF "sentiment_breakdown" \in DOMAIN summary
    THEN <<Paragraph("Sentiment Analysis", "subheading")>>
         \o SentimentLine(summary.sentiment_breakdown, "positive")
         \o SentimentLine(summary.sentiment_breakdown, "negative")
         \o SentimentLine(summary.sentiment_breakdown, "neutral")
         \o <<Spacer>>
    ELSE <<>>

GeoSummaryBlock(geo) ==
    IF "summary" \in DOMAIN geo
    THEN <<Paragraph("AI Visibility Summary", "subheading"),
           Paragraph(GeoSummaryText(geo.summary), "body"), Spacer>>
         \o SentimentLines(geo.summary)
    ELSE <<>>

\* the GEO section (lines 321-359)
GeoSection(geo) ==
    <<Paragraph("3. Generative Engine Optimization (GEO)", "heading"), Spacer>>
    \o GeoSummaryBlock(geo)
    \o Bullets("GEO Recommendations", geo)
    \o <<PageBreak>>

\* metrics.get('avg_visit_duration', 'N/A') in an f-string
DurationText(metrics) ==
    IF "avg_visit_duration" \notin DOMAIN metrics THEN "N/A"
    ELSE IF IsNone(metrics.avg_visit_duration) THEN "None"
    ELSE Val(metrics.avg_visit_duration)

\* metrics.get('pages_per_visit', 'N/A') in an f-string
PagesText(metrics) ==
    IF "pages_per_visit" \notin DOMAIN metrics THEN "N/A"
    ELSE IF IsNone(metrics.pages_per_visit) THEN "None"
    ELSE FloatStr(Val(metrics.pages_per_visit))

\* f"{metrics.get('bounce_rate', 0)*100:.1f}" for a bounce rate that is a number
BounceText(metrics) ==
    IF "bounce_rate" \in DOMAIN metrics
    THEN OneDecimal(Val(metrics.bounce_rate) * 100) ELSE "0.0"

\* traffic.get('growth_trend', 'N/A').capitalize() for a trend that is a string
TrendText(traffic) ==
    IF "growth_trend" \in DOMAIN traffic
    THEN Capitalize(Val(traffic.growth_trend)) ELSE Capitalize("N/A")

\* the metrics paragraph of the traffic section (lines 373-381), without its
\* line breaks
TrafficMetricsText(traffic, metrics) ==
    "<b>Estimated Monthly Visits:</b> " \o Commas(Get(metrics, "monthly_visits", 0))
    \o " (Range: " \o Commas(Get(metrics, "monthly_visits_min", 0))
    \o " - " \o Commas(Get(metrics, "monthly_visits_max", 0)) \o ")<br/>"
    \o "<b>Average Visit Duration:</b> " \o DurationText(metrics) \o "<br/>"
    \o "<b>Pages per Visit:</b> " \o PagesText(metrics) \o "<br/>"
    \o "<b>Bounce Rate:</b> " \o BounceText(metrics) \o "%<br/>"
    \o "<b>Confidence Level:</b> "
    \o Capitalize(Get(traffic, "confidence_level", "N/A")) \o "<br/>"
    \o "<b>Growth Trend:</b> " \o TrendText(traffic) \o "<br/>"

MsgMultiplyNone == "unsupported operand type(s) for *: 'NoneType' and 'int'"

MsgCapitalizeNone == "'NoneType' object has no attribute 'capitalize'"

\* what building the metrics paragraph raises: a null bounce rate cannot be
\* multiplied, a null growth trend cannot be capitalized
TrafficMetricsError(traffic, metrics) ==
    IF "bounce_rate" \in DOMAIN metrics /\ IsNone(metrics.bounce_rate)
    THEN Some(MsgMultiplyNone)
    ELSE IF "growth_trend" \in DOMAIN traffic /\ IsNone(traffic.growth_trend)
    THEN Some(MsgCapitalizeNone)
    ELSE None

TrafficMetricsBlock(traffic) ==
    IF "metrics" \in DOMAIN traffic
    THEN <<Paragraph("Traffic Metrics", "subheading"),
           Paragraph(TrafficMetricsText(traffic, traffic.metrics), "body"), Spacer>>
    ELSE <<>>

\* one row of the traffic sources table (lines 390-394)
SourceCells(source) ==
    <<Get(source, "source", ""),
      (IF "percentage" \in DOMAIN source THEN FloatStr(source.percentage) ELSE "0") \o "%",
      Commas(Get(source, "estimated_visits", 0))>>

SourceRows(sources) == [i \in 1..Len(sources) |-> SourceCells(sources[i])]

\* the traffic sources subsection (lines 384-406): a row for every source
SourcesTable(traffic) ==
    IF "traffic_sources" \in DOMAIN traffic /\ traffic.traffic_sources # <<>>
    THEN <<Paragraph("Traffic Sources", "subheading"),
           Table(<<<<"Source", "Percentage", "Est. Visits">>>>
                 \o SourceRows(traffic.traffic_sources)),
           Spacer>>
    ELSE <<>>

\* str(kw.get("position", "N/A"))
PositionText(kw) ==
    IF "position" \notin DOMAIN kw THEN "N/A"
    ELSE IF IsNone(kw.position) THEN "None"
    ELSE ToString(Val(kw.position))

\* one row of the keywords table (lines 414-419)
KeywordCells(kw) ==
    <<Get(kw, "keyword", ""),
      PositionText(kw),
      IF Truthy(GetNullable(kw, "volume")) THEN Commas(Val(kw.volume)) ELSE "N/A",
      IF Truthy(GetNullable(kw, "cpc")) THEN "$" \o TwoDecimals(Val(kw.cpc)) ELSE "N/A">>

KeywordCellRows(keywords) == [i \in 1..Len(keywords) |-> KeywordCells(keywords[i])]

\* the top keywords subsection (lines 408-431): the first five rows
KeywordsTable(traffic) ==
    IF "top_keywords" \in DOMAIN traffic /\ traffic.top_keywords # <<>>
    THEN <<Paragraph("Top Keywords", "subheading"),
           Table(<<<<"Keyword", "Position", "Volume", "CPC">>>>
                 \o KeywordCellRows(FirstN(traffic.top_keywords, TopEntries))),
           Spacer>>
    ELSE <<>>

\* the traffic section (lines 361-438); no page break follows it
TrafficSection(traffic) ==
    <<Paragraph("4. Traffic Estimation", "heading"), Spacer>>
    \o TrafficMetricsBlock(traffic)
    \o SourcesTable(traffic)
    \o KeywordsTable(traffic)
    \o Bullets("Traffic Recommendations", traffic)

\* the closing disclaimer (lines 440-447)
Footer ==
    <<Spacer,
      Paragraph("<i>This report was generated automatically by the SEO Audit Tool. Traffic estimates and AI visibility data are approximations and should be used for guidance only. For exact figures, please consult your analytics platforms.</i>",
                "footer")>>

\* the flowables create_pdf_report appends, in order
ReportElements(request, now) ==
    TitlePage(request.url, request.company_name, now)
    \o ExecutiveSummary(request.url)
    \o KeyMetrics(request.seo_data, request.traffic_data)
    \o <<PageBreak>>
    \o (IF Included(request.include_sections, "seo") /\ HasPayload(request.seo_data)
        THEN SeoSection(Val(request.seo_data)) ELSE <<>>)
    \o (IF Included(request.include_sections, "search") /\ HasPayload(request.search_data)
        THEN SearchSection(Val(request.search_data)) ELSE <<>>)
    \o (IF Included(request.include_sections, "geo") /\ HasPayload(request.geo_data)
        THEN GeoSection(Val(request.geo_data)) ELSE <<>>)
    \o (IF Included(request.include_sections, "traffic") /\ HasPayload(request.traffic_data)
        THEN TrafficSection(Val(request.traffic_data)) ELSE <<>>)
    \o Footer

\* the exception create_pdf_report raises before doc.build, if any: the
\* key-metrics table comes first, the traffic section last
ReportError(request) ==
    IF HasPayload(request.seo_data) /\ NullScore(Val(request.seo_data))
    THEN Some(MsgCompareNone)
    ELSE IF /\ Included(request.include_sections, "traffic")
            /\ HasPayload(request.traffic_data)
            /\ "metrics" \in DOMAIN Val(request.traffic_data)
    THEN TrafficMetricsError(Val(request.traffic_data), Val(request.traffic_data).metrics)
    ELSE None

\* the outcome of create_pdf_report: the document handed to doc.build, which
\* writes it to output_path, or the exception raised on the way
ReportResult(error, request, now) ==
    IF IsNone(error)
    THEN [raised |-> FALSE, error |-> "", elements |-> ReportElements(request, now)]
    ELSE [raised |-> TRUE, error |-> Val(error), elements |-> <<>>]

create_pdf_report(request, now) == ReportResult(ReportError(request), request, now)

\* the clock: datetime.now() as the title page and the file name print it
Clock == {[text |-> "January 15, 2024 at 10:30", stamp |-> "20240115_103000"]}

\* the names tempfile may give a file of the temporary directory
TempNames == {"/tmp/tmpa.pdf", "/tmp/tmpb.pdf", "/tmp/tmpc.pdf"}

\* a name taken by every file whatever the directory holds
AnyNames(dir) == TempNames

\* tempfile.NamedTemporaryFile(suffix=".pdf", delete=False): the file is
\* created with O_EXCL under a name no file of the directory has
FreshNames(dir) == TempNames \ DOMAIN dir

\* the directory after content was written to path
Written(dir, path, content) ==
    [name \in DOMAIN dir \cup {path} |-> IF name = path THEN content ELSE dir[name]]

\* FileResponse(output_path, media_type, filename), with the content of the
\* file it sends
FileResponse(path, content, now) ==
    [path |-> path, media_type |-> "application/pdf",
     filename |-> "SEO_Audit_Report_" \o now.stamp \o ".pdf", content |-> content]

\* the ReportRequest model
ReportRequest(url, seo_data, search_data, geo_data, traffic_data, include_sections,
              company_name) ==
    [url |-> url, seo_data |-> seo_data, search_data |-> search_data,
     geo_data |-> geo_data, traffic_data |-> traffic_data,
     include_sections |-> include_sections, company_name |-> company_name]

\* a list of n recommendations
Advice(module, n) == [i \in 1..n |-> module \o " advice " \o ToString(i)]

\* an SEO payload in the shape of SEOHealthResponse, its performance score
\* given or null
SeoData(performance_score) ==
    [url |-> "https://example.com/", strategy |-> "mobile",
     performance_score |-> performance_score, seo_score |-> Some(92),
     accessibility_score |-> Some(45), best_practices_score |-> None,
     core_web_vitals |->
        [lcp |-> Some(25000), lcp_category |-> Some("good"),
         fid |-> None, fid_category |-> None,
         cls |-> Some(3000), cls_category |-> Some("poor"),
         fcp |-> Some(21500), fcp_category |-> Some("needs_improvement"),
         ttfb |-> None, ttfb_category |-> None],
     opportunities |-> <<>>, diagnostics |-> <<>>,
     recommendations |-> Advice("SEO", 7)]

\* a search payload: the response of the search endpoint without credentials,
\* with two query rows more
SearchData ==
    [Val(SearchOutcome([url |-> "https://example.com/", access_token |-> None,
                        bing_api_key |-> None],
                       fetch_google_index_status("https://example.com/", None,
                                                 [kind |-> "none"]),
                       fetch_bing_index_status("https://example.com/", None,
                                               [kind |-> "none"])).body)
     EXCEPT !.search_performance =
                @ \o <<SearchRow("example keyword 6", 90, 1500, 600, 201000),
                       SearchRow("example keyword 7", 0, 0, 0, 0)>>,
            !.recommendations = @ \o Advice("Search", 6)]

\* a GEO payload in the shape of GEOResponse
GeoData ==
    [domain |-> "example.com", total_mentions |-> 2, mentions |-> <<>>,
     summary |-> SummaryFrom(4, 2, [positive |-> 1, negative |-> 0, neutral |-> 1],
                             <<1, 4>>),
     recommendations |-> <<MsgModerateVisibility(5000)>> \o GeneralGeoRecommendations]

\* a traffic payload: a response of the traffic endpoint
TrafficData ==
    Val(TrafficOutcome([url |-> "https://example.com/", include_sources |-> Some(TRUE),
                        include_countries |-> Some(TRUE),
                        include_keywords |-> Some(TRUE)],
                       Draw(150000, <<50, 25, 10, 8, 5, 2>>, "4m 30s", 31400, 6000, 1,
                            12500, "slight_decrease", "low")).body)

SeoPayloads == {None, Some(<<>>), Some(SeoData(Some(95))), Some(SeoData(None))}

SearchPayloads == {None, Some(SearchData)}

GeoPayloads == {None, Some(GeoData)}

TrafficPayloads == {None, Some(TrafficData)}

\* include_sections: the default, one module, none
SectionLists == {<<"seo", "search", "geo", "traffic">>, <<"geo">>, <<>>}

ReportRequests ==
    {ReportRequest(url, seo_data, search_data, geo_data, traffic_data, include_sections,
                   company_name) :
        url \in {"https://example.com/", "example.com"},
        seo_data \in SeoPayloads, search_data \in SearchPayloads,
        geo_data \in GeoPayloads, traffic_data \in TrafficPayloads,
        include_sections \in SectionLists, company_name \in {None, Some("Acme")}}

\* the files one specification lets the temporary directory grow to
MaxFiles == 1

\* generate_report once the temporary file is there (lines 464-477): the
\* document is written to output_path and the file is sent, or the exception
\* becomes a 500 and the empty file stays
ReportOutcome(request, path, result, now) ==
    IF result.raised
    THEN /\ files' = Written(files, path, <<>>)
         /\ call' = HttpError(ReportOp, request, <<>>, 500,
                              "Error generating report: " \o result.error)
    ELSE /\ files' = Written(files, path, result.elements)
         /\ call' = Ok(ReportOp, request, <<>>, FileResponse(path, result.elements, now))

\* the POST /report/generate endpoint, for a request of the given set
GenerateReportFrom(requests) ==
    /\ Idle
    /\ Cardinality(DOMAIN files) < MaxFiles
    /\ \E request \in requests, now \in Clock :
         IF ~IsHttpUrl(request.url)
         THEN call' = ValidationError(ReportOp, request) /\ files' = files
         ELSE \E path \in FreshNames(files) :
                ReportOutcome(request, path, create_pdf_report(request, now), now)
    /\ UNCHANGED <<settings, cfg, phase, gen>>

GenerateReport == GenerateReportFrom(ReportRequests)

ReportNext == Startup \/ GenerateReport \/ Respond

\* the report module reads no credential
InitReport ==
    Init /\ Unconfigured({"pagespeed_api_key", "gemini_api_key", "apify_api_token",
                          "bing_api_key", "DEBUG"})

\* the report endpoint alone, one call after the other
SpecReport == InitReport /\ [][ReportNext]_vars

-----------------------------------------------------------------------------
(* Properties of create_pdf_report *)

Modules == {"seo", "search", "geo", "traffic"}

\* the heading that opens the section of each module
SectionHeading ==
    [seo |-> "1. SEO Health Analysis", search |-> "2. Search Visibility Analysis",
     geo |-> "3. Generative Engine Optimization (GEO)", traffic |-> "4. Traffic Estimation"]

\* the payload of each module in a request
PayloadOf(request, module) ==
    CASE module = "seo" -> request.seo_data
      [] module = "search" -> request.search_data
      [] module = "geo" -> request.geo_data
      [] module = "traffic" -> request.traffic_data

\* the document the call produced has a paragraph of the given style and text
Emitted(style, text) ==
    /\ ~IsNone(call.body)
    /\ \E i \in 1..Len(Val(call.body).content) :
         /\ Val(call.body).content[i].kind = style
         /\ Val(call.body).content[i].text = text

\* C6: for every report request, create_pdf_report emits the section of a
\* module if and only if the module is in include_sections and its payload is
\* present and non-empty, and it emits the key-metrics table of the executive
\* summary if and only if the SEO payload is supplied, whatever the inclusion
\* set is.
C6_SectionsEmitted ==
    (call.op = ReportOp /\ call.status # 422)
    => /\ \A module \in Modules :
            Emitted("heading", SectionHeading[module])
            <=> /\ Included(call.inputs.include_sections, module)
                /\ HasPayload(PayloadOf(call.inputs, module))
       /\ Emitted("subheading", "Key Metrics Overview")
          <=> HasPayload(call.inputs.seo_data)

\* the positions of the subheading `title` in a document
TitledAt(doc, title) ==
    {i \in 1..Len(doc) : doc[i].kind = "subheading" /\ doc[i].text = title}

\* the rows, without the header, of the table under the subheading at i
RowsAt(doc, i) == Tail(doc[i + 1].rows)

\* the bullet paragraphs that follow the subheading at i
BulletsAt(doc, i) ==
    LET stop == Min({j \in (i + 1)..Len(doc) : doc[j].kind # "body"})
    IN  [k \in 1..(stop - i - 1) |-> doc[i + k]]

\* every table titled `title` shows at most five rows, those of the first
\* five entries of the list
TableTruncated(doc, title, rows) ==
    \A i \in TitledAt(doc, title) :
        Len(RowsAt(doc, i)) <= 5 /\ RowsAt(doc, i) = FirstN(rows, 5)

\* every recommendations list titled `title` shows at most five bullets,
\* those of the first five recommendations
BulletsTruncated(doc, title, data) ==
    \A i \in TitledAt(doc, title) :
        /\ Len(BulletsAt(doc, i)) <= 5
        /\ BulletsAt(doc, i) = FirstN(BulletItems(Val(data).recommendations), 5)

\* C7: every list-type subsection of the document (the recommendations of
\* each module, the search query rows, the traffic source rows, the traffic
\* keyword rows) has at most 5 entries, the first 5 of the payload's list in
\* payload order.
C7_ListsTruncated ==
    (call.op = ReportOp /\ call.status = 200)
    => /\ BulletsTruncated(Val(call.body).content, "SEO Recommendations",
                           call.inputs.seo_data)
       /\ BulletsTruncated(Val(call.body).content, "Search Visibility Recommendations",
                           call.inputs.search_data)
       /\ BulletsTruncated(Val(call.body).content, "GEO Recommendations",
                           call.inputs.geo_data)
       /\ BulletsTruncated(Val(call.body).content, "Traffic Recommendations",
                           call.inputs.traffic_data)
       /\ TableTruncated(Val(call.body).content, "Top Search Queries",
                         QueryRows(Val(call.inputs.search_data).search_performance))
       /\ TableTruncated(Val(call.body).content, "Traffic Sources",
                         SourceRows(Val(call.inputs.traffic_data).traffic_sources))
       /\ TableTruncated(Val(call.body).content, "Top Keywords",
                         KeywordCellRows(Val(call.inputs.traffic_data).top_keywords))

-----------------------------------------------------------------------------
(* report.py: generate_report calls in flight at the same time, as the      *)
(* worker processes of the service run them; every call goes through three  *)
(* steps: the temporary file, the document, the response                    *)

\* a call that was received and has not run yet
Received(request, now) ==
    [pc |-> "received", request |-> request, now |-> now, path |-> "",
     status |-> 0, detail |-> "", body |-> None]

\* lines 460-462: the temporary file is created, empty, and closed
CreateTemp(id) ==
    /\ gen[id].pc = "received"
    /\ \E path \in FreshNames(files) :
         /\ files' = Written(files, path, <<>>)
         /\ gen' = [gen EXCEPT ![id].pc = "created", ![id].path = path]
    /\ UNCHANGED <<settings, cfg, phase, call>>

\* what create_pdf_report leaves behind: the document in the file at
\* output_path, or the exception as a 500 (lines 472-477)
Built(id, result) ==
    IF result.raised
    THEN /\ gen' = [gen EXCEPT ![id].pc = "failed", ![id].status = 500,
                               ![id].detail = "Error generating report: " \o result.error]
         /\ files' = files
    ELSE /\ gen' = [gen EXCEPT ![id].pc = "built"]
         /\ files' = Written(files, gen[id].path, result.elements)

\* line 464: create_pdf_report(request, output_path)
Build(id) ==
    /\ gen[id].pc = "created"
    /\ Built(id, create_pdf_report(gen[id].request, gen[id].now))
    /\ UNCHANGED <<settings, cfg, phase, call>>

\* lines 467-471: the file at output_path is sent as the response
Serve(id) ==
    /\ gen[id].pc = "built"
    /\ gen' = [gen EXCEPT ![id].pc = "served", ![id].status = 200,
                          ![id].body = Some(FileResponse(gen[id].path, files[gen[id].path],
                                                         gen[id].now))]
    /\ UNCHANGED <<settings, cfg, phase, call, files>>

GenerateNext ==
    \/ \E id \in DOMAIN gen : CreateTemp(id)
    \/ \E id \in DOMAIN gen : Build(id)
    \/ \E id \in DOMAIN gen : Serve(id)

\* the calls in flight
Calls == {1, 2}

\* the requests of the calls in flight: a GEO report, a full report, and a
\* report whose SEO payload has a null score
ConcurrentRequests ==
    {ReportRequest("https://example.com/", None, None, Some(GeoData), None,
                   <<"geo">>, None),
     ReportRequest("https://example.com/", Some(SeoData(Some(95))), Some(SearchData),
                   Some(GeoData), Some(TrafficData),
                   <<"seo", "search", "geo", "traffic">>, Some("Acme")),
     ReportRequest("https://example.com/", Some(SeoData(None)), None, None, None,
                   <<"seo", "search", "geo", "traffic">>, None)}

\* the service is up, nothing is configured, and the calls were received
InitGenerate ==
    /\ settings \in SettingsValues
    /\ Unconfigured({"pagespeed_api_key", "gemini_api_key", "apify_api_token",
                     "bing_api_key", "DEBUG"})
    /\ cfg = ModuleDefaults
    /\ phase = "serving"
    /\ call = NoCall
    /\ files = <<>>
    /\ gen \in [Calls -> {Received(request, now) :
                            request \in ConcurrentRequests, now \in Clock}]

\* concurrent generate_report calls, their steps interleaved
SpecGenerate == InitGenerate /\ [][GenerateNext]_vars

-----------------------------------------------------------------------------
(* Properties of concurrent report generation *)

\* the call has its temporary file
HasPath(id) == gen[id].path # ""

\* C8: for any interleaving of concurrent generate_report calls, no two calls
\* obtain the same output path: the file a call built holds that call's
\* document, and the response of a call carries that call's document and
\* path.
C8_PathsNotShared ==
    /\ \A i, j \in DOMAIN gen :
         (i # j /\ HasPath(i) /\ HasPath(j)) => gen[i].path # gen[j].path
    /\ \A i \in DOMAIN gen :
         /\ gen[i].pc = "built"
            => files[gen[i].path] = ReportElements(gen[i].request, gen[i].now)
         /\ gen[i].pc = "served"
            => Val(gen[i].body)
               = FileResponse(gen[i].path, ReportElements(gen[i].request, gen[i].now),
                              gen[i].now)

\* C8 witness: two calls with different requests were both served, each from
\* its own path with its own document
C8_Witness ==
    /\ gen[1].pc = "served"
    /\ gen[2].pc = "served"
    /\ gen[1].request # gen[2].request
    /\ gen[1].path # gen[2].path
    /\ Val(gen[1].body).content # Val(gen[2].body).content

-----------------------------------------------------------------------------
(* The service as a whole: main.py copies the settings into the modules,    *)
(* then requests to the five endpoints are answered in any order            *)

\* the settings of a deployment: nothing configured, or every credential
SettingsAllOrNone ==
    {s \in SettingsValues :
        /\ s.DEBUG = ""
        /\ \A f \in {"gemini_api_key", "apify_api_token", "bing_api_key"} :
             s[f] = s.pagespeed_api_key}

InitService == Init /\ settings \in SettingsAllOrNone

\* the report the service is asked for: a GEO report
ServiceRequests ==
    {ReportRequest("https://example.com/", None, None, Some(GeoData), None,
                   <<"geo">>, None)}

ServiceNext ==
    \/ Startup
    \/ AnalyzeSeoHealthFor({"https://example.com/"}, {Some("mobile")})
    \/ AnalyzeSearchVisibility
    \/ AnalyzeGeoFor({"example.com"}, {Some(<<"seo">>)})
    \/ EstimateTraffic
    \/ GenerateReportFrom(ServiceRequests)
    \/ Respond

SpecService == InitService /\ [][ServiceNext]_vars

\* what main.py lines 35-46 make of the settings
StartupCopy(s) ==
    [PAGESPEED_API_KEY |-> s.pagespeed_api_key, GEMINI_API_KEY |-> s.gemini_api_key,
     APIFY_API_TOKEN |-> s.apify_api_token, BING_API_KEY |-> s.bing_api_key]

-----------------------------------------------------------------------------
(* seo_health.py: categorize_metric as a function of its arguments *)

CategorizeOp == "categorize_metric"

\* the metric types asked for: the five vitals and a name the table lacks
MetricTypes == {"lcp", "fid", "cls", "fcp", "ttfb", "inp"}

\* the values asked about, in units of 1/10000: zero, every threshold of the
\* table with its two neighbours, and a value above them all
MetricValues ==
    {0, 50000000}
    \cup UNION {{t - 1, t, t + 1} :
                  t \in {1000, 2500, 8000, 18000, 25000, 30000, 40000,
                         1000000, 3000000}}
    \cup {24000, 30000, 50000}

\* a value and a metric type are given
InitCategorize ==
    /\ settings \in SettingsValues
    /\ Unconfigured({"pagespeed_api_key", "gemini_api_key", "apify_api_token",
                     "bing_api_key", "DEBUG"})
    /\ cfg = ModuleDefaults
    /\ phase = "import"
    /\ call \in {[op |-> CategorizeOp, value |-> x, metric_type |-> v, result |-> None] :
                    x \in MetricValues, v \in MetricTypes}
    /\ files = <<>>
    /\ gen = <<>>

\* categorize_metric is applied
Categorize ==
    /\ call.op = CategorizeOp
    /\ IsNone(call.result)
    /\ call' = [call EXCEPT !.result = Some(categorize_metric(call.value, call.metric_type))]
    /\ UNCHANGED <<settings, cfg, phase, files, gen>>

CategorizeNext == Categorize

\* categorize_metric as a function of its arguments
SpecCategorize == InitCategorize /\ [][CategorizeNext]_vars

\* the published thresholds (good_max, needs_improvement_max) of each vital,
\* in units of 1/10000: LCP 2.5/4.0, FID 100/300, CLS 0.1/0.25, FCP 1.8/3.0,
\* TTFB 0.8/1.8
Published ==
    [lcp |-> <<25000, 40000>>, fid |-> <<1000000, 3000000>>, cls |-> <<1000, 2500>>,
     fcp |-> <<18000, 30000>>, ttfb |-> <<8000, 18000>>]

\* C11: for each of the five vitals and every value x, categorize_metric is
\* 'good' iff x <= good_max, 'needs_improvement' iff good_max < x <=
\* needs_improvement_max, and 'poor' iff x > needs_improvement_max, with the
\* published thresholds.
C11_Categorized ==
    (call.op = CategorizeOp /\ ~IsNone(call.result) /\ call.metric_type \in DOMAIN Published)
    => LET x   == call.value
           lo  == Published[call.metric_type][1]
           hi  == Published[call.metric_type][2]
           cat == Val(call.result)
       IN  /\ cat = "good" <=> x <= lo
           /\ cat = "needs_improvement" <=> (lo < x /\ x <= hi)
           /\ cat = "poor" <=> x > hi

\* C11 witness: an LCP of exactly 4.0 was categorized needs_improvement
C11_Witness ==
    /\ call.op = CategorizeOp
    /\ call.metric_type = "lcp"
    /\ call.value = 40000
    /\ call.result = Some("needs_improvement")

-----------------------------------------------------------------------------
(* seo_health.py: extract_opportunities, and the opportunity rule of        *)
(* generate_recommendations, as functions of the audits                     *)

OpportunitiesOp == "extract_opportunities"

\* the audits a page is given, in the order of the allow-list
AuditIds ==
    <<"render-blocking-resources", "unused-css-rules", "unused-javascript",
      "minify-css">>

\* what the Lighthouse result holds for one audit: <<>> when the audit is
\* missing, else <<score>> with the Optional score of the audit (1/10000)
AuditChoices ==
    {<<>>, <<None>>, <<Some(0)>>, <<Some(3000)>>, <<Some(4000)>>, <<Some(8000)>>,
     <<Some(10000)>>}

\* the Lighthouse result whose audits are the given choices
LighthouseOf(choices) ==
    [audits |->
        [id \in {AuditIds[i] : i \in {j \in 1..Len(AuditIds) : choices[j] # <<>>}} |->
            Scored(id, choices[CHOOSE i \in 1..Len(AuditIds) : AuditIds[i] = id][1])]]

\* a Lighthouse result is given
InitOpportunities ==
    /\ settings \in SettingsValues
    /\ Unconfigured({"pagespeed_api_key", "gemini_api_key", "apify_api_token",
                     "bing_api_key", "DEBUG"})
    /\ cfg = ModuleDefaults
    /\ phase = "import"
    /\ call \in {[op |-> OpportunitiesOp, lighthouse |-> LighthouseOf(choices),
                  opportunities |-> None, recommendations |-> None] :
                    choices \in [1..Len(AuditIds) -> AuditChoices]}
    /\ files = <<>>
    /\ gen = <<>>

\* extract_opportunities is applied to the Lighthouse result
ExtractOpportunities ==
    /\ call.op = OpportunitiesOp
    /\ IsNone(call.opportunities)
    /\ call' = [call EXCEPT !.opportunities = Some(extract_opportunities(call.lighthouse))]
    /\ UNCHANGED <<settings, cfg, phase, files, gen>>

\* a CoreWebVitals record with the given category for every vital
VitalsOf(categories) ==
    [v \in {Vitals[i] : i \in 1..Len(Vitals)} |->
        [value |-> None, category |-> categories[v]]]

\* an SEOHealthResponse without scores, with the given vitals and opportunities
BareResponse(core_web_vitals, opportunities) ==
    [performance_score |-> None, seo_score |-> None, accessibility_score |-> None,
     core_web_vitals |-> core_web_vitals, opportunities |-> opportunities]

\* generate_recommendations is applied to a response that holds the extracted
\* opportunities
RecommendOpportunities ==
    /\ call.op = OpportunitiesOp
    /\ ~IsNone(call.opportunities)
    /\ IsNone(call.recommendations)
    /\ call' = [call EXCEPT !.recommendations =
                  Some(generate_recommendations(
                         BareResponse(VitalsOf([v \in DOMAIN Thresholds |-> None]),
                                      Val(call.opportunities))))]
    /\ UNCHANGED <<settings, cfg, phase, files, gen>>

OpportunitiesNext == ExtractOpportunities \/ RecommendOpportunities

\* extract_opportunities and the recommendations drawn from its result
SpecOpportunities == InitOpportunities /\ [][OpportunitiesNext]_vars

\* the score an entry is ranked by when only an absent score counts as 1
RankedScore(opp) == IF IsNone(opp.score) THEN 10000 ELSE Val(opp.score)

\* C12: the list returned by extract_opportunities is sorted ascending by
\* score, only an absent score counting as 1: for any two adjacent entries
\* a, b, score(a) <= score(b); an opportunity with score 0 precedes every
\* opportunity with a higher score.
C12_SortedByScore ==
    (call.op = OpportunitiesOp /\ ~IsNone(call.opportunities))
    => LET opps == Val(call.opportunities)
       IN  \A i \in 1..(Len(opps) - 1) : RankedScore(opps[i]) <= RankedScore(opps[i + 1])

\* the positions of the high-priority entries of a list of opportunities
HighPriority(opps) == {i \in 1..Len(opps) : opps[i].priority = "high"}

\* the high-priority entries whose message is among the recommendations
Messaged(opps, recs) ==
    {i \in HighPriority(opps) : \E k \in 1..Len(recs) : recs[k] = MsgOpportunity(opps[i])}

\* C20: for every list produced by extract_opportunities,
\* generate_recommendations emits exactly min(3, h) 'High Priority' messages,
\* h being the number of opportunities of priority 'high', and they are for
\* the lowest-scored high-priority opportunities: none is skipped while fewer
\* than 3 such messages have been emitted.
C20_TopHighPriority ==
    (call.op = OpportunitiesOp /\ ~IsNone(call.recommendations))
    => LET opps == Val(call.opportunities)
           recs == Val(call.recommendations)
           h    == Cardinality(HighPriority(opps))
           said == Messaged(opps, recs)
       IN  /\ Cardinality({k \in 1..Len(recs) : StartsWith(recs[k], HighPriorityPrefix)})
                = (IF h < 3 THEN h ELSE 3)
           /\ Cardinality(said) = (IF h < 3 THEN h ELSE 3)
           /\ \A i \in said, j \in HighPriority(opps) \ said :
                 RankedScore(opps[i]) <= RankedScore(opps[j])

-----------------------------------------------------------------------------
(* geo_module.py: extract_sentiment and extract_rank as functions of        *)
(* (text, brand)                                                            *)

SentimentOp == "extract_sentiment"

\* a filler of 100 characters that holds none of the listed words
Filler ==
    "lorem ipsum dolor sit amet consectetur adipiscing elit sed do eiusmod tempor incididunt ut labor et "

\* the pieces a response text is put together from
TextPieces == {"Acme.io ", "great ", "Best ", "bad ", "scam ", Filler}

\* the number of pieces of a response text
MaxPieces == 4

\* every concatenation of at most n of the given pieces
RECURSIVE PiecesJoined(_, _)
PiecesJoined(pieces, n) ==
    IF n = 0 THEN {""}
    ELSE LET shorter == PiecesJoined(pieces, n - 1)
         IN  shorter \cup {a \o b : a \in shorter, b \in pieces}

\* the brands asked about
Brands == {"acme.io", "Acme"}

\* a text and a brand are given
InitSentiment ==
    /\ settings \in SettingsValues
    /\ Unconfigured({"pagespeed_api_key", "gemini_api_key", "apify_api_token",
                     "bing_api_key", "DEBUG"})
    /\ cfg = ModuleDefaults
    /\ phase = "import"
    /\ call \in {[op |-> SentimentOp, text |-> text, brand |-> brand, result |-> None] :
                    text \in PiecesJoined(TextPieces, MaxPieces), brand \in Brands}
    /\ files = <<>>
    /\ gen = <<>>

\* extract_sentiment is applied
ExtractSentiment ==
    /\ call.op = SentimentOp
    /\ IsNone(call.result)
    /\ call' = [call EXCEPT !.result = Some(extract_sentiment(call.text, call.brand))]
    /\ UNCHANGED <<settings, cfg, phase, files, gen>>

SentimentNext == ExtractSentiment

\* extract_sentiment as a function of its arguments
SpecSentiment == InitSentiment /\ [][SentimentNext]_vars

\* the number of occurrences of the listed words in a text, a repeated word
\* counted as often as it occurs
Occurrences(words, text) ==
    Cardinality({hit \in words \X (1..Len(text)) : At(text, hit[2], hit[1])})

\* the window of 100 characters before and after the occurrence of a brand of
\* the given length at the 1-based position pos
Window(text, pos, length) ==
    SubSeq(text, IF pos > 100 THEN pos - 100 ELSE 1,
                 IF pos + length + 99 < Len(text) THEN pos + length + 99 ELSE Len(text))

\* the verdict the occurrences in a window call for
Verdict(window) ==
    IF Occurrences({"best", "excellent", "great", "amazing", "top", "leading",
                    "recommended", "popular", "trusted"}, window)
       > Occurrences({"worst", "bad", "poor", "terrible", "avoid", "issues",
                      "problems", "scam", "unreliable"}, window)
    THEN "positive"
    ELSE IF Occurrences({"worst", "bad", "poor", "terrible", "avoid", "issues",
                         "problems", "scam", "unreliable"}, window)
            > Occurrences({"best", "excellent", "great", "amazing", "top", "leading",
                           "recommended", "popular", "trusted"}, window)
    THEN "negative"
    ELSE "neutral"

\* C13: extract_sentiment counts the occurrences of the positive words and of
\* the negative words in the window of 100 characters before and after the
\* first case-insensitive occurrence of the brand, every occurrence counting,
\* also a repeated one: more positive occurrences give 'positive', more
\* negative ones 'negative', equal counts 'neutral'.
C13_SentimentByOccurrences ==
    (call.op = SentimentOp /\ ~IsNone(call.result)
        /\ Contains(Lower(call.text), Lower(call.brand)))
    => call.result =
         Some(Verdict(Window(Lower(call.text), Find(Lower(call.text), Lower(call.brand)),
                             Len(call.brand))))

RankOp == "extract_rank"

\* the lines a response text is put together from: plain lines, numbered
\* lines with each separator, an indented number, a number set off from its
\* separator, and a number without a separator
LinePieces ==
    {"Intro\n", "1. Other\n", "2. Acme\n", "Acme rocks\n", "12) ACME\n", "4-acme\n",
     "  7. Acme\n", "3 - Acme\n", "5 Acme\n"}

\* a text and a brand are given
InitRank ==
    /\ settings \in SettingsValues
    /\ Unconfigured({"pagespeed_api_key", "gemini_api_key", "apify_api_token",
                     "bing_api_key", "DEBUG"})
    /\ cfg = ModuleDefaults
    /\ phase = "import"
    /\ call \in {[op |-> RankOp, text |-> text, brand |-> brand, result |-> None] :
                    text \in PiecesJoined(LinePieces, MaxPieces - 1),
                    brand \in {"Acme", "widgets"}}
    /\ files = <<>>
    /\ gen = <<>>

\* extract_rank is applied; the result holds the Optional rank
ExtractRank ==
    /\ call.op = RankOp
    /\ IsNone(call.result)
    /\ call' = [call EXCEPT !.result = Some(extract_rank(call.text, call.brand))]
    /\ UNCHANGED <<settings, cfg, phase, files, gen>>

RankNext == ExtractRank

\* extract_rank as a function of its arguments
SpecRank == InitRank /\ [][RankNext]_vars

\* the lines of a text that contain the brand, whatever the case
LinesWith(lines, brand) ==
    {i \in 1..Len(lines) : Contains(Lower(lines[i]), Lower(brand))}

\* the number a line starts with when its leading digits are followed by one
\* of the separators, as <<n>>, else <<>>
LeadingNumber(line) ==
    LET digits == Span(line, 1, Digits)
    IN  IF digits > 0 /\ digits < Len(line) /\ Char(line, digits + 1) \in {".", "-", ")"}
        THEN <<ParseInt(SubSeq(line, 1, digits))>>
        ELSE <<>>

\* C14: extract_rank looks only at the first line that contains the brand,
\* whatever the case: if that line starts with digits followed by one of the
\* separators '.', '-', ')' the result is that number, otherwise the 1-based
\* index of that line; the result is absent if and only if no line contains
\* the brand.
C14_RankOfFirstLine ==
    (call.op = RankOp /\ ~IsNone(call.result))
    => LET lines == SplitOn(call.text, "\n")
           hits  == LinesWith(lines, call.brand)
           first == Min(hits)
       IN  /\ IsNone(Val(call.result)) <=> hits = {}
           /\ hits # {} =>
                Val(call.result) = (IF LeadingNumber(lines[first]) # <<>>
                                    THEN Some(LeadingNumber(lines[first])[1])
                                    ELSE Some(first))

-----------------------------------------------------------------------------
(* traffic_estimation.py: estimate_traffic_sources as a function of the     *)
(* weights it samples                                                       *)

SourcesOp == "estimate_traffic_sources"

\* the weights each channel may be sampled at, in hundredths: the ends of
\* its range and a value between them
WeightChoices ==
    <<{35, 47, 60}, {15, 35}, {5, 20}, {3, 15}, {0, 3, 15}, {1, 8}>>

\* no share of the weights is an exact tie at the first decimal (the float of
\* the source may round a tie either way)
NoTies(weights) ==
    \A i \in 1..Len(weights) : (2000 * weights[i]) % (2 * Sum(weights)) # Sum(weights)

\* the visits of a month, and six sampled weights
InitSources ==
    /\ settings \in SettingsValues
    /\ Unconfigured({"pagespeed_api_key", "gemini_api_key", "apify_api_token",
                     "bing_api_key", "DEBUG"})
    /\ cfg = ModuleDefaults
    /\ phase = "import"
    /\ call \in {[op |-> SourcesOp, total_visits |-> 10001, weights |-> weights,
                  sources |-> None] :
                    weights \in {w \in WeightChoices[1] \X WeightChoices[2] \X WeightChoices[3]
                                        \X WeightChoices[4] \X WeightChoices[5]
                                        \X WeightChoices[6] : NoTies(w)}}
    /\ files = <<>>
    /\ gen = <<>>

\* estimate_traffic_sources is applied
EstimateSources ==
    /\ call.op = SourcesOp
    /\ IsNone(call.sources)
    /\ call' = [call EXCEPT !.sources =
                  Some(estimate_traffic_sources(call.total_visits, call.weights))]
    /\ UNCHANGED <<settings, cfg, phase, files, gen>>

SourcesNext == EstimateSources

\* estimate_traffic_sources as a function of the sampled weights
SpecSources == InitSources /\ [][SourcesNext]_vars

\* the sum of the percentages of a list of sources, in units of 1/10000
RECURSIVE PercentageSum(_, _)
PercentageSum(sources, n) ==
    IF n = 0 THEN 0 ELSE PercentageSum(sources, n - 1) + sources[n].percentage

\* C15: for every output of estimate_traffic_sources the six reported
\* percentages sum to a value within 0.1 of 100.0.
C15_PercentagesSum ==
    (call.op = SourcesOp /\ ~IsNone(call.sources))
    => LET total == PercentageSum(Val(call.sources), Len(Val(call.sources)))
       IN  /\ Len(Val(call.sources)) = 6
           /\ total >= 1000000 - 1000
           /\ total <= 1000000 + 1000

-----------------------------------------------------------------------------
(* Properties of the summary and of the probe order of analyze_geo *)

\* the last invocation was an analysis that returned its response
GeoReturned == call.op = GeoOp /\ call.status = 200

\* the counts of a GEO response agree with its mentions: total_checks is the
\* number of probes, mentions_found the number of probes with mentioned =
\* true, and the three sentiment counts sum to mentions_found
CountsAgree(response, probes) ==
    LET summary == response.summary
        found   == Cardinality({i \in 1..Len(response.mentions) :
                                  response.mentions[i].mentioned})
    IN  /\ summary.total_checks = Len(probes)
        /\ summary.total_checks = Len(response.mentions)
        /\ summary.mentions_found = found
        /\ summary.mentions_found <= summary.total_checks
        /\ summary.sentiment_breakdown.positive + summary.sentiment_breakdown.negative
             + summary.sentiment_breakdown.neutral = summary.mentions_found
        /\ summary.mention_rate >= 0
        /\ summary.mention_rate <= 10000

\* C16 as stated: in every GEO summary the counts agree with the probes and
\* mention_rate equals mentions_found / total_checks.
C16_Original ==
    GeoReturned
    => LET summary == Val(call.body).summary
       IN  /\ CountsAgree(Val(call.body), call.probes)
           /\ summary.mention_rate * summary.total_checks = summary.mentions_found * 10000

\* C16 amended: in every GEO summary total_checks equals the number of probes,
\* mentions_found the number of probes with mentioned = true (at most
\* total_checks), the sentiment counts sum to mentions_found, and mention_rate
\* is mentions_found / total_checks rounded to two decimals, within [0, 1].
C16_SummaryCounts ==
    GeoReturned
    => LET summary == Val(call.body).summary
       IN  /\ CountsAgree(Val(call.body), call.probes)
           /\ summary.mention_rate % 100 = 0
           /\ 2 * (summary.mention_rate * summary.total_checks
                     - summary.mentions_found * 10000) <= 100 * summary.total_checks
           /\ 2 * (summary.mentions_found * 10000
                     - summary.mention_rate * summary.total_checks) <= 100 * summary.total_checks

\* C16 witness: a summary whose quotient has more than two decimals
C16_Witness ==
    /\ GeoReturned
    /\ (Val(call.body).summary.mentions_found * 100) % Val(call.body).summary.total_checks # 0
    /\ Val(call.body).summary.mentions_found > 0
    /\ Val(call.body).summary.mentions_found < Val(call.body).summary.total_checks

\* the query the i-th pair of probes is about, for a domain and the keywords
\* of the request: the two domain queries, then two queries per keyword
ExpectedQuery(domain, keywords, i) ==
    IF i = 1 THEN "What is " \o domain \o "?"
    ELSE IF i = 2 THEN "Who are the main competitors of " \o domain \o "?"
    ELSE IF i % 2 = 1 THEN "What are the best tools for " \o keywords[(i - 1) \div 2] \o "?"
    ELSE "Compare top " \o keywords[(i - 2) \div 2] \o " platforms"

\* C17: analyze_geo asks 'What is {domain}?', 'Who are the main competitors
\* of {domain}?', then the two keyword queries of each of the first min(3, n)
\* keywords in request order, and runs the probes one after the other: the
\* mentions list has exactly 2 x (2 + 2 x min(3, n)) entries, at most 16, the
\* gemini probe and then the chatgpt probe of each query in turn; keywords
\* after the third produce no probe.
C17_ProbeOrder ==
    GeoReturned
    => LET response == Val(call.body)
           keywords == Val(call.inputs.keywords)
           used     == IF Len(keywords) < 3 THEN Len(keywords) ELSE 3
           mentions == response.mentions
       IN  /\ Len(mentions) = 2 * (2 + 2 * used)
           /\ Len(mentions) <= 16
           /\ Len(call.probes) = Len(mentions)
           /\ \A i \in 1..(2 + 2 * used) :
                /\ mentions[2 * i - 1].platform = "gemini"
                /\ mentions[2 * i].platform = "chatgpt"
                /\ mentions[2 * i - 1].query = ExpectedQuery(response.domain, keywords, i)
                /\ mentions[2 * i].query = ExpectedQuery(response.domain, keywords, i)
           /\ \A j \in 1..Len(mentions) :
                /\ call.probes[j].platform = mentions[j].platform
                /\ call.probes[j].prompt = mentions[j].query

\* C17 witness: a request with four keywords was answered with 16 mentions,
\* the Gemini credential configured
C17_Witness ==
    /\ GeoReturned
    /\ Len(Val(call.inputs.keywords)) = 4
    /\ Len(Val(call.body).mentions) = 16
    /\ call.net # <<>>

-----------------------------------------------------------------------------
(* traffic_estimation.py: estimate_traffic_metrics as a function of the     *)
(* domain key and of the base it samples                                     *)

MetricsOp == "estimate_traffic_metrics"

\* the urls whose domain keys the function is applied to
MetricsUrls ==
    {"https://example.com/", "http://city.gov/", "https://data.gov.example.org/",
     "https://a.io/", "https://mit.edu/", "https://www.education.com/"}

\* the ends of random.randint(10000, 500000) (line 77), their neighbours and
\* a value between them
BaseChoices == {10000, 10001, 150000, 499999, 500000}

\* a url, and the draw of one request with its base
InitMetrics ==
    /\ settings \in SettingsValues
    /\ Unconfigured({"pagespeed_api_key", "gemini_api_key", "apify_api_token",
                     "bing_api_key", "DEBUG"})
    /\ cfg = ModuleDefaults
    /\ phase = "import"
    /\ call \in {[op |-> MetricsOp, url |-> url, domain |-> DomainKey(url),
                  draw |-> [draw EXCEPT !.base = base], metrics |-> None] :
                    url \in MetricsUrls, draw \in TrafficDraws, base \in BaseChoices}
    /\ files = <<>>
    /\ gen = <<>>

\* estimate_traffic_metrics is applied
EstimateMetrics ==
    /\ call.op = MetricsOp
    /\ IsNone(call.metrics)
    /\ call' = [call EXCEPT !.metrics = Some(estimate_traffic_metrics(call.domain, call.draw))]
    /\ UNCHANGED <<settings, cfg, phase, files, gen>>

MetricsNext == EstimateMetrics

\* estimate_traffic_metrics as a function of the domain key and the base
SpecMetrics == InitMetrics /\ [][MetricsNext]_vars

EndsWith(s, p) == Len(s) >= Len(p) /\ SubSeq(s, Len(s) - Len(p) + 1, Len(s)) = p

\* twice b x (2 for a domain that ends in .gov or .edu) x (1.5 for a domain
\* of fewer than 10 characters)
TwiceStated(domain, base) ==
    base * (IF EndsWith(domain, ".gov") \/ EndsWith(domain, ".edu") THEN 2 ELSE 1)
         * (IF Len(domain) < 10 THEN 3 ELSE 2)

\* C18: for every sampled base b in [10000, 500000] and every domain key d,
\* estimate_traffic_metrics returns monthly_visits = b x (2 if d ends in
\* '.gov' or '.edu', else 1) x (1.5 if d has fewer than 10 characters, else
\* 1), an integer in [10000, 1500000], with monthly_visits_min = floor(0.7 x
\* monthly_visits) <= monthly_visits <= monthly_visits_max = floor(1.3 x
\* monthly_visits); a domain that contains '.gov' or '.edu' elsewhere than
\* at its end is not doubled.
C18_MonthlyVisits ==
    (call.op = MetricsOp /\ ~IsNone(call.metrics))
    => LET outcome == Val(call.metrics)
           metrics == outcome.result
       IN  /\ ~outcome.raised
           /\ 2 * metrics.monthly_visits = TwiceStated(call.domain, call.draw.base)
           /\ metrics.monthly_visits >= 10000
           /\ metrics.monthly_visits <= 1500000
           /\ metrics.monthly_visits_min = (7 * metrics.monthly_visits) \div 10
           /\ metrics.monthly_visits_max = (13 * metrics.monthly_visits) \div 10
           /\ metrics.monthly_visits_min <= metrics.monthly_visits
           /\ metrics.monthly_visits <= metrics.monthly_visits_max

-----------------------------------------------------------------------------
(* seo_health.py: generate_recommendations as a function of the categories  *)
(* of the core web vitals                                                    *)

RecommendOp == "generate_recommendations"

\* what a category field of CoreWebVitals may hold: a result of
\* categorize_metric, or nothing
CategoryChoices == {None, Some("good"), Some("needs_improvement"), Some("poor")}

\* a category for each vital and a performance score; no opportunity
InitRecommend ==
    /\ settings \in SettingsValues
    /\ Unconfigured({"pagespeed_api_key", "gemini_api_key", "apify_api_token",
                     "bing_api_key", "DEBUG"})
    /\ cfg = ModuleDefaults
    /\ phase = "import"
    /\ call \in {[op |-> RecommendOp, categories |-> categories,
                  performance_score |-> performance_score, recommendations |-> None] :
                    categories \in [DOMAIN Thresholds -> CategoryChoices],
                    performance_score \in {None, Some(95)}}
    /\ files = <<>>
    /\ gen = <<>>

\* generate_recommendations is applied
Recommend ==
    /\ call.op = RecommendOp
    /\ IsNone(call.recommendations)
    /\ call' = [call EXCEPT !.recommendations =
                  Some(generate_recommendations(
                         [BareResponse(VitalsOf(call.categories), <<>>)
                            EXCEPT !.performance_score = call.performance_score]))]
    /\ UNCHANGED <<settings, cfg, phase, files, gen>>

RecommendNext == Recommend

\* generate_recommendations as a function of the categories of the vitals
SpecRecommend == InitRecommend /\ [][RecommendNext]_vars

\* the messages of a list that are about a poor vital
PoorVitalMessages(recs) ==
    {i \in 1..Len(recs) : Contains(recs[i], " is poor. ")}

\* C19: generate_recommendations emits, for each of the five vitals (LCP,
\* FID, CLS, FCP, TTFB) whose category is 'poor', that vital's own message,
\* whatever the other rules do: the number of vital messages in the output
\* equals the number of vitals categorized 'poor'.
C19_MessagePerPoorVital ==
    (call.op = RecommendOp /\ ~IsNone(call.recommendations))
    => Cardinality(PoorVitalMessages(Val(call.recommendations)))
       = Cardinality({v \in DOMAIN Thresholds : call.categories[v] = Some("poor")})

-----------------------------------------------------------------------------
(* Properties of the recommendations of the search visibility endpoint *)

\* the handler fetched data from the provider with a credential
ObtainedFrom(to) ==
    \E i \in 1..Len(call.net) : call.net[i].to = to /\ call.net[i].reply.kind = "ok"

\* C21: analyze_search_visibility called with neither provider credential
\* returns a recommendation list that contains the 'connect your Google
\* Search Console and Bing Webmaster Tools accounts' message; with at least
\* one provider's data obtained through a credential the message is not
\* emitted.
C21_ConnectMessage ==
    (call.op = SearchOp /\ call.status = 200)
    => LET recommendations == Val(call.body).recommendations
           connect == \E i \in 1..Len(recommendations) : recommendations[i] = MsgConnect
       IN  /\ (NoString(call.inputs.access_token) /\ NoString(call.inputs.bing_api_key))
              => connect
           /\ (ObtainedFrom("google") \/ ObtainedFrom("bing")) => ~connect

-----------------------------------------------------------------------------
(* Properties of the mentions of analyze_geo *)

Sentiments == {"positive", "neutral", "negative"}

\* C22: every BrandMention produced by analyze_geo has mentioned true iff
\* the normalized domain is a case-insensitive substring of the response
\* text; if mentioned is false then context, sentiment and rank are absent;
\* if mentioned is true then context is the first 500 characters of the
\* response and sentiment is one of positive/neutral/negative;
\* competitors_mentioned is present iff check_competitors is enabled, whether
\* or not the brand is mentioned.
C22_MentionFields ==
    GeoReturned
    => LET response == Val(call.body)
       IN  \A j \in 1..Len(response.mentions) :
             LET m    == response.mentions[j]
                 text == ProbeText(call.probes[j])[1]
             IN  /\ m.mentioned <=> Contains(Lower(text), Lower(response.domain))
                 /\ ~m.mentioned
                    => IsNone(m.context) /\ IsNone(m.sentiment) /\ IsNone(m.rank)
                 /\ m.mentioned
                    => /\ m.context = Some(SubSeq(text, 1, IF Len(text) < 500 THEN Len(text) ELSE 500))
                       /\ ~IsNone(m.sentiment)
                       /\ Val(m.sentiment) \in Sentiments
                 /\ ~IsNone(m.competitors_mentioned)
                    <=> call.inputs.check_competitors = Some(TRUE)

\* C22 witness: a response with competitors checked that holds a mention of
\* the brand and a probe that does not mention it
C22_Witness ==
    /\ GeoReturned
    /\ call.inputs.check_competitors = Some(TRUE)
    /\ \E j \in 1..Len(Val(call.body).mentions) :
         /\ Val(call.body).mentions[j].mentioned
         /\ ~IsNone(Val(call.body).mentions[j].competitors_mentioned)
    /\ \E j \in 1..Len(Val(call.body).mentions) :
         /\ ~Val(call.body).mentions[j].mentioned
         /\ ~IsNone(Val(call.body).mentions[j].competitors_mentioned)

-----------------------------------------------------------------------------
(* geo_module.py: extract_competitors as a function of the text and of the  *)
(* brand                                                                     *)

CompetitorsOp == "extract_competitors"

\* the openings of a response text: three that the patterns match, one that
\* they do not
Openings == {"Main competitors include ", "Good alternatives are ", "Top tools include ",
             "We like "}

\* what follows the opening
Listings ==
    {"Moz, Ahrefs and Semrush.",
     "Moz, moz , android tools or AB, Acme.io. Another sentence, and more",
     "a1, b2, c3x, d4y, e5z, f6w, g7v and h8u or Moz.",
     "Moz.\nOther popular options include Ahrefs, Acme Pro and  hubspot crm ",
     "."}

\* a response text and a brand
InitCompetitors ==
    /\ settings \in SettingsValues
    /\ Unconfigured({"pagespeed_api_key", "gemini_api_key", "apify_api_token",
                     "bing_api_key", "DEBUG"})
    /\ cfg = ModuleDefaults
    /\ phase = "import"
    /\ call \in {[op |-> CompetitorsOp, text |-> opening \o listing, brand |-> brand,
                  competitors |-> None] :
                    opening \in Openings, listing \in Listings,
                    brand \in {"Acme", "acme.io", ""}}
    /\ files = <<>>
    /\ gen = <<>>

\* extract_competitors is applied
ExtractCompetitors ==
    /\ call.op = CompetitorsOp
    /\ IsNone(call.competitors)
    /\ \E result \in extract_competitors(call.text, call.brand) :
         call' = [call EXCEPT !.competitors = Some(result)]
    /\ UNCHANGED <<settings, cfg, phase, files, gen>>

CompetitorsNext == ExtractCompetitors

\* extract_competitors as a function of the text and the brand
SpecCompetitors == InitCompetitors /\ [][CompetitorsNext]_vars

\* the trimmed pieces that the clauses after the matched competitor phrases
\* of a lower-cased text fall into at commas, 'and' and 'or'
ClausePieces(text_lower) ==
    LET clauses == FindAll(1, text_lower) \o FindAll(2, text_lower)
    IN  UNION {{Strip(SplitItems(clauses[i], 1)[k]) : k \in 1..Len(SplitItems(clauses[i], 1))} :
                 i \in 1..Len(clauses)}

\* C23: for every text and brand, the list returned by extract_competitors
\* has at most 5 entries, no two equal, each a trimmed token of at least 3
\* characters that does not contain the lower-cased brand name, and each
\* obtained by splitting the clause that follows a matched competitor phrase
\* on commas, 'and' and 'or'.
C23_Competitors ==
    (call.op = CompetitorsOp /\ ~IsNone(call.competitors))
    => LET competitors == Val(call.competitors)
       IN  /\ Cardinality(competitors) <= 5
           /\ \A item \in competitors :
                /\ Strip(item) = item
                /\ Len(item) >= 3
                /\ ~Contains(item, Lower(call.brand))
                /\ ~Contains(item, ",")
                /\ ~Contains(item, ".")
                /\ Contains(Lower(call.text), item)
                /\ item \in ClausePieces(Lower(call.text))

\* C23 witness: a text that names seven competitors gave five of them
C23_Witness ==
    /\ call.op = CompetitorsOp
    /\ ~IsNone(call.competitors)
    /\ Cardinality(CompetitorSet(call.text, call.brand)) = 7
    /\ Cardinality(Val(call.competitors)) = 5

\* the rank of every mention that carries one
RECURSIVE PresentRanks(_)
PresentRanks(mentions) ==
    IF mentions = <<>> THEN <<>>
    ELSE (IF IsNone(Head(mentions).rank) THEN <<>> ELSE <<Val(Head(mentions).rank)>>)
         \o PresentRanks(Tail(mentions))

\* C24: in analyze_geo, average_rank is the mean over all probes whose rank
\* is present (every extracted rank value, a rank of 0 captured from a line
\* such as '0. domain' included), and it is absent if and only if no probe
\* has a rank.
C24_AverageRank ==
    GeoReturned
    => LET summary == Val(call.body).summary
           ranks   == PresentRanks(Val(call.body).mentions)
       IN  /\ IsNone(summary.average_rank) <=> ranks = <<>>
           /\ ranks # <<>>
              => summary.average_rank = Some(RoundRatio(Sum(ranks), Len(ranks), 1))

-----------------------------------------------------------------------------
(* geo_module.py: generate_geo_recommendations as a function of the summary *)
(* and of the keywords                                                       *)

GeoRecommendOp == "generate_geo_recommendations"

\* the probes of a request with one keyword
SummaryChecks == 8

\* the sentiment counts of the mentions found
Breakdowns(mentions_found) ==
    {[positive |-> pn[1], negative |-> pn[2], neutral |-> mentions_found - pn[1] - pn[2]] :
        pn \in {c \in (0..mentions_found) \X (0..mentions_found) :
                  c[1] + c[2] <= mentions_found}}

\* the average ranks of a summary: none without a mention
AverageRanks(mentions_found) ==
    IF mentions_found = 0 THEN {None}
    ELSE {None, Some(10000), Some(30000), Some(31000), Some(75000)}

\* the summaries analyze_geo builds for SummaryChecks probes
Summaries ==
    UNION {{[SummaryFrom(SummaryChecks, mentions_found, breakdown, <<>>)
               EXCEPT !.average_rank = rank] :
              breakdown \in Breakdowns(mentions_found), rank \in AverageRanks(mentions_found)} :
           mentions_found \in 0..SummaryChecks}

\* a summary and the keywords of the request
InitGeoRecommend ==
    /\ settings \in SettingsValues
    /\ Unconfigured({"pagespeed_api_key", "gemini_api_key", "apify_api_token",
                     "bing_api_key", "DEBUG"})
    /\ cfg = ModuleDefaults
    /\ phase = "import"
    /\ call \in {[op |-> GeoRecommendOp,
                  summary |-> summary,
                  keywords |-> keywords, recommendations |-> None] :
                    summary \in Summaries, keywords \in {<<>>, <<"seo">>, <<"seo", "crm software">>}}
    /\ files = <<>>
    /\ gen = <<>>

\* generate_geo_recommendations is applied
RecommendGeo ==
    /\ call.op = GeoRecommendOp
    /\ IsNone(call.recommendations)
    /\ call' = [call EXCEPT !.recommendations =
                  Some(generate_geo_recommendations(
                         [summary |-> call.summary, keywords |-> call.keywords]))]
    /\ UNCHANGED <<settings, cfg, phase, files, gen>>

GeoRecommendNext == RecommendGeo

\* generate_geo_recommendations as a function of the summary
SpecGeoRecommend == InitGeoRecommend /\ [][GeoRecommendNext]_vars

\* which of the rules a message comes from, by the words it opens with
MessageKind(message) ==
    IF StartsWith(message, "Low AI visibility: ") THEN "urgent"
    ELSE IF StartsWith(message, "Moderate AI visibility: ") THEN "moderate"
    ELSE IF StartsWith(message, "Strong AI visibility: ") THEN "strong"
    ELSE IF StartsWith(message, "Low positive sentiment detected.") THEN "low-positive"
    ELSE IF StartsWith(message, "Negative sentiment detected.") THEN "negative"
    ELSE IF StartsWith(message, "Average ranking position is ") THEN "ranking"
    ELSE IF StartsWith(message, "Target keywords analyzed: ") THEN "keywords"
    ELSE "general"

\* C25: for every GEO summary, generate_geo_recommendations returns a list
\* whose first entry is exactly one of the three visibility messages (urgent
\* when mention_rate < 0.3, moderate when 0.3 <= mention_rate < 0.7, strong
\* otherwise), whose last five entries are the five fixed general messages
\* in fixed order, and which in between holds, in this order, the
\* low-positive-sentiment message iff positive share < 0.5, the
\* negative-sentiment message iff negative share > 0.2 (both only when some
\* probe carries a sentiment), the ranking message iff average_rank is
\* present and > 3, and the keyword message iff the keyword list is
\* non-empty.
C25_RecommendationOrder ==
    (call.op = GeoRecommendOp /\ ~IsNone(call.recommendations))
    => LET recs     == Val(call.recommendations)
           summary  == call.summary
           counts   == summary.sentiment_breakdown
           carried  == counts.positive + counts.negative + counts.neutral
           expected ==
               (IF carried > 0 /\ 10 * counts.positive < 5 * carried
                THEN <<"low-positive">> ELSE <<>>)
               \o (IF carried > 0 /\ 10 * counts.negative > 2 * carried
                   THEN <<"negative">> ELSE <<>>)
               \o (IF ~IsNone(summary.average_rank) /\ Val(summary.average_rank) > 3 * 10000
                   THEN <<"ranking">> ELSE <<>>)
               \o (IF Len(call.keywords) > 0 THEN <<"keywords">> ELSE <<>>)
       IN  /\ Len(recs) = 1 + Len(expected) + 5
           /\ MessageKind(recs[1])
              = (IF summary.mention_rate < 3000 THEN "urgent"
                 ELSE IF summary.mention_rate < 7000 THEN "moderate" ELSE "strong")
           /\ \A i \in 1..Len(expected) : MessageKind(recs[1 + i]) = expected[i]
           /\ \A i \in 1..5 :
                recs[Len(recs) - 5 + i] = GeneralGeoRecommendations[i]

\* C25 witness: a summary of moderate visibility gave all four messages
\* between the visibility message and the general ones
C25_Witness ==
    /\ call.op = GeoRecommendOp
    /\ ~IsNone(call.recommendations)
    /\ Len(Val(call.recommendations)) = 10
    /\ MessageKind(Val(call.recommendations)[1]) = "moderate"
    /\ MessageKind(Val(call.recommendations)[4]) = "ranking"

-----------------------------------------------------------------------------
(* seo_health.py: extract_core_web_vitals as a function of the audits *)

VitalsOp == "extract_core_web_vitals"

\* what the Lighthouse result holds for the audit of one vital: <<>> when the
\* audit is missing, <<None>> for an audit without a numericValue, else
\* <<Some(n)>> with its numericValue (milliseconds; 1/10000 for the layout
\* shift)
VitalChoices == {<<>>, <<None>>, <<Some(0)>>, <<Some(1004)>>, <<Some(5000)>>}

\* the audit entry of a choice
VitalEntry(choice) ==
    IF IsNone(choice[1]) THEN [displayValue |-> "n/a"] ELSE Timing(Val(choice[1]))

\* the Lighthouse result whose vital audits are the given choices
LighthouseWith(choices) ==
    [audits |->
        [id \in {VitalAudit[v].audit : v \in {w \in DOMAIN choices : choices[w] # <<>>}} |->
            VitalEntry(choices[CHOOSE v \in DOMAIN choices : VitalAudit[v].audit = id])]]

\* a Lighthouse result is given
InitVitals ==
    /\ settings \in SettingsValues
    /\ Unconfigured({"pagespeed_api_key", "gemini_api_key", "apify_api_token",
                     "bing_api_key", "DEBUG"})
    /\ cfg = ModuleDefaults
    /\ phase = "import"
    /\ call \in {[op |-> VitalsOp, choices |-> choices, lighthouse |-> LighthouseWith(choices),
                  core_web_vitals |-> None] :
                    choices \in [DOMAIN VitalAudit -> VitalChoices]}
    /\ files = <<>>
    /\ gen = <<>>

\* extract_core_web_vitals is applied to the Lighthouse result
ExtractVitals ==
    /\ call.op = VitalsOp
    /\ IsNone(call.core_web_vitals)
    /\ call' = [call EXCEPT !.core_web_vitals = Some(extract_core_web_vitals(call.lighthouse))]
    /\ UNCHANGED <<settings, cfg, phase, files, gen>>

VitalsNext == ExtractVitals

\* extract_core_web_vitals as a function of the audits
SpecVitals == InitVitals /\ [][VitalsNext]_vars

\* the payload supplied a numeric value for the audit of the vital
Supplied(choices, v) == choices[v] # <<>> /\ ~IsNone(choices[v][1])

\* C26: for each vital, extract_core_web_vitals returns a present value and a
\* present category if and only if the Lighthouse payload supplied a numeric
\* value for that vital's audit, a supplied value of exactly 0 included (for
\* example CLS = 0); value and category are absent only when the source did
\* not supply the value.
C26_PresentWhenSupplied ==
    (call.op = VitalsOp /\ ~IsNone(call.core_web_vitals))
    => \A v \in DOMAIN VitalAudit :
         /\ ~IsNone(Val(call.core_web_vitals)[v].value) <=> Supplied(call.choices, v)
         /\ ~IsNone(Val(call.core_web_vitals)[v].category) <=> Supplied(call.choices, v)

-----------------------------------------------------------------------------
(* Properties of the vitals of the SEO health endpoint *)

\* C27: in every SEO result returned by analyze_seo_health, live or
\* synthetic, each vital whose value is present has a category equal to
\* categorize_metric(value, vital): the category is derived from the
\* reported value by the published thresholds.
C27_CategoryOfValue ==
    (call.op = SeoOp /\ call.status = 200)
    => \A v \in DOMAIN Thresholds :
         LET vital == Val(call.body).core_web_vitals[v]
         IN  ~IsNone(vital.value)
             => vital.category = Some(categorize_metric(Val(vital.value), v))

-----------------------------------------------------------------------------
(* Properties of create_pdf_report on the scores of the SEO payload *)

\* C28: create_pdf_report completes and produces a document for every SEO
\* payload that is valid under the SEOHealthResponse schema, a payload in
\* which performance_score, seo_score or accessibility_score is present as a
\* key with a null value included; such a score is left out of the
\* key-metrics table and no error is raised. (Stated for the requests
\* without a traffic payload, the only other payload the report reads
\* figures from.)
C28_NullScoreTolerated ==
    (/\ call.op = ReportOp
     /\ IsHttpUrl(call.inputs.url)
     /\ HasPayload(call.inputs.seo_data)
     /\ IsNone(call.inputs.traffic_data))
    => /\ call.status = 200
       /\ Val(call.body).content # <<>>

-----------------------------------------------------------------------------
(* traffic_estimation.py: compare_traffic *)

CompareOp == "compare_traffic"

\* str(e) of the validation error of TrafficRequest(url=url)
MsgInvalidUrl == "1 validation error for TrafficRequest url Input should be a valid URL"

\* [u.strip() for u in urls.split(",")]
UrlList(urls) == [i \in 1..Len(SplitOn(urls, ",")) |-> Strip(SplitOn(urls, ",")[i])]

\* str(e) of an HTTPException
HttpErrorText(outcome) == ToString(outcome.status) \o ": " \o outcome.detail

\* the entry of one url once estimate_traffic was awaited (lines 338-341)
EntryOf(url, outcome) ==
    IF outcome.status = 200 THEN Val(outcome.body)
    ELSE [url |-> url, error |-> HttpErrorText(outcome)]

\* the body of the loop of compare_traffic for one url (lines 336-341): the
\* request is built with the defaults of TrafficRequest and estimated; an
\* exception of either step becomes an entry {url, error}
CompareEntry(url, draw) ==
    IF ~IsHttpUrl(url) THEN [url |-> url, error |-> MsgInvalidUrl]
    ELSE EntryOf(url, TrafficOutcome([url |-> url, include_sources |-> Some(TRUE),
                                      include_countries |-> Some(TRUE),
                                      include_keywords |-> Some(TRUE)], draw))

\* results that keep the estimates only
CompareResultsOfEstimates(url_list, draws) ==
    SelectSeq([i \in 1..Len(url_list) |-> CompareEntry(url_list[i], draws[i])],
              LAMBDA entry : "error" \notin DOMAIN entry)

\* results: one entry per url of the list, appended in order
CompareResults(url_list, draws) ==
    [i \in 1..Len(url_list) |-> CompareEntry(url_list[i], draws[i])]

\* the dict compare_traffic returns (lines 343-346)
ComparisonOf(results) == [comparison |-> results, total_compared |-> Len(results)]

compare_traffic(urls, draws) ==
    Ok(CompareOp, [urls |-> urls, draws |-> draws], <<>>,
       ComparisonOf(CompareResults(UrlList(urls), draws)))

\* the urls query parameter
CompareUrls ==
    {"",
     "https://example.com/",
     "https://a.io/, http://city.gov/",
     "https://example.com/,not a url , https://a.io/",
     "https://a.io/,,https://example.com/"}

\* the GET /traffic/compare endpoint: every url of the list has its own draw
CompareTraffic ==
    /\ Idle
    /\ \E urls \in CompareUrls :
         \E draws \in [1..Len(UrlList(urls)) -> TrafficDraws] :
            call' = compare_traffic(urls, draws)
    /\ UNCHANGED <<settings, cfg, phase, files, gen>>

CompareNext == Startup \/ CompareTraffic \/ Respond

\* the comparison endpoint alone
SpecCompare == InitTraffic /\ [][CompareNext]_vars

\* the number of commas of a string
CommaCount(s) == Cardinality({i \in 1..Len(s) : Char(s, i) = ","})

\* an entry {url, error}
IsErrorEntry(entry) == DOMAIN entry = {"url", "error"}

\* what the endpoint answers for one url alone with the given draw
Alone(url, draw) == Val(compare_traffic(url, <<draw>>).body).comparison[1]

\* C29: compare_traffic returns exactly one entry per comma-separated URL,
\* in input order, with total_compared equal to the number of URLs: a URL
\* whose request construction or estimation fails yields an entry {url,
\* error} and does not abort or alter the entries of the URLs before or
\* after it.
C29_EntryPerUrl ==
    call.op = CompareOp
    => LET body == Val(call.body)
           n    == CommaCount(call.inputs.urls) + 1
       IN  /\ call.status = 200
           /\ Len(body.comparison) = n
           /\ body.total_compared = n
           /\ \A i \in 1..n :
                LET url   == Strip(SplitOn(call.inputs.urls, ",")[i])
                    entry == body.comparison[i]
                IN  /\ entry.url = url
                    /\ entry = Alone(url, call.inputs.draws[i])
                    /\ IsErrorEntry(entry)
                       <=> \/ ~IsHttpUrl(url)
                           \/ estimate_traffic_metrics(DomainKey(url), call.inputs.draws[i]).raised

\* C29 witness: a comparison of three urls whose second entry is an error
\* between two estimates, and one whose estimation failed
C29_Witness ==
    /\ call.op = CompareOp
    /\ Len(Val(call.body).comparison) = 3
    /\ ~IsErrorEntry(Val(call.body).comparison[1])
    /\ IsErrorEntry(Val(call.body).comparison[2])
    /\ ~IsErrorEntry(Val(call.body).comparison[3])

-----------------------------------------------------------------------------
(* Properties of the source recommendations of the traffic endpoint *)

\* the channels with a recommendation: the words the message opens with and
\* the share (in units of 1/10000 of a percent) below which it is given
SourceRules ==
    {[source |-> "Organic Search", opening |-> "Organic search is only ", limit |-> 400000],
     [source |-> "Direct", opening |-> "Direct traffic is ", limit |-> 200000],
     [source |-> "Social Media", opening |-> "Low social media traffic.", limit |-> 50000]}

\* C30: estimate_traffic emits a traffic-source recommendation (organic <
\* 40%, direct < 20%, social < 5%) only for a channel that is present in the
\* returned traffic_sources list with a share below its threshold; when the
\* source breakdown is excluded (include_sources = false, traffic_sources
\* empty) no source-share recommendation is emitted.
C30_SourceRecommendations ==
    (call.op = TrafficOp /\ call.status = 200)
    => LET response == Val(call.body)
           sources  == response.traffic_sources
           recs     == response.recommendations
       IN  \A rule \in SourceRules :
             (\E i \in 1..Len(recs) : StartsWith(recs[i], rule.opening))
             => \E j \in 1..Len(sources) :
                  /\ sources[j].source = rule.source
                  /\ sources[j].percentage < rule.limit

=============================================================================
